---------------------------- MODULE Spec2Model ----------------------------
(***************************************************************************)
(* A model of the sales_report repository:                                 *)
(*   - qry_data_mapping.apply_mappings      (the entity resolver),         *)
(*   - the calculate_report section walk of the three report generators    *)
(*     (receivables_report_generator, gvl_report, usa_spa_report),         *)
(*   - full_report.main                     (the three-variant run).       *)
(*                                                                         *)
(* Every cell of a data frame that holds text is a sequence of tokens (a   *)
(* token is a word, a letter or one blank " "), so that str.strip, the     *)
(* title tests and the exact-equality lookups are computed, not assumed.   *)
(* A missing cell (pandas NaN / pd.NA) is the value NaN.                   *)
(***************************************************************************)
EXTENDS Integers, Sequences, FiniteSets, TLC

VARIABLES
    \* ---- apply_mappings ------------------------------------------------
    mapping_df,         \* the mapping table as passed in (rows in table order)
    mapping_columns,    \* the columns the mapping table has
    sales_in,           \* the sales records as passed in
    sales_df,           \* the working frame of apply_mappings
    unmapped_entities,  \* (entity type, entity name) -> count and dates
    unmapped_records,   \* the rows written to unmapped_entities_<ts>.csv
    map_pc,             \* the position of apply_mappings
    \* ---- calculate_report ----------------------------------------------
    variant,            \* the generator that runs: management, gvl or usa_spa
    sections,           \* self.config['sections']
    df,                 \* self.df, the prepared sales records
    budget_month,       \* self.budget_month
    prior_month,        \* self.prior_month
    kusd_columns,       \* the reference frames that have a Value_kUSD column
    missing_columns,    \* the <<frame, column>> pairs of the dimension columns a frame lacks
    section_idx,        \* the number of sections the loop has processed
    report_data,        \* the lines emitted so far, then the returned frame
    item_rows,          \* the local rows of the last leaf section
    section_totals,     \* title -> stored totals
    grand_total,        \* the grand-total accumulator
    report_pc,          \* the position of calculate_report
    \* ---- full_report.main ----------------------------------------------
    main_pc,            \* the position of main
    main_report,        \* the number of the report main is at
    main_locals,        \* the local names main has bound
    main_errors,        \* the reports whose except block has run
    dfs_to_combine,     \* the reports whose frames are combined
    exported,           \* the reports in the exported combined file
    main_exit,          \* how the run ended
    \* ---- fastapi_web_app.main -------------------------------------------
    report_status,      \* the global report_status
    background_tasks,   \* the execute_report tasks added, each with its position
    responses,          \* the status codes of the POST /run-report requests
    output_dir,         \* the timestamps that have combined files in data/outputs
    \* ---- render_report / export_report ----------------------------------
    shown_row,          \* the line of the report table that is displayed
    shown_by,           \* the function that displayed it
    shown_cells,        \* output format -> the cells of the line as displayed
    \* ---- __init__ / _prepare_data ---------------------------------------
    loaded,             \* the clock, the environment and the frames __init__ has read
    prepared            \* the fields of the generator after _prepare_data

mapVars == <<mapping_df, mapping_columns, sales_in, sales_df, unmapped_entities, unmapped_records, map_pc>>

\* The configuration and the data of a generator: fixed by its constructor.
reportConfig ==
    <<variant, sections, df, budget_month, prior_month, kusd_columns, missing_columns>>

reportVars ==
    <<reportConfig, section_idx, report_data, item_rows, section_totals, grand_total,
      report_pc>>

mainVars ==
    <<main_pc, main_report, main_locals, main_errors, dfs_to_combine, exported, main_exit>>

\* What a step of one part of the program leaves alone: the other parts.
webVars == <<report_status, background_tasks, responses, output_dir>>

displayVars == <<shown_row, shown_by, shown_cells>>

prepareVars == <<loaded, prepared>>

otherThanMap == <<reportVars, mainVars, webVars, displayVars, prepareVars>>

otherThanReport == <<mapVars, mainVars, webVars, displayVars, prepareVars>>

otherThanMain == <<mapVars, reportVars, webVars, displayVars, prepareVars>>

otherThanWeb == <<mapVars, reportVars, mainVars, displayVars, prepareVars>>

otherThanDisplay == <<mapVars, reportVars, mainVars, webVars, prepareVars>>

-----------------------------------------------------------------------------
(* Bounds of the model *)

MaxRecords == 2
MaxMapRows == 2

-----------------------------------------------------------------------------
(* Text cells *)

NaN == <<"\\NaN">>

Blank == " "

\* Python str(x) of a cell: a missing cell prints as 'nan'.
PyStr(x) == IF x = NaN THEN <<"n", "a", "n">> ELSE x

RECURSIVE LStrip(_)
LStrip(s) == IF s # <<>> /\ Head(s) = Blank THEN LStrip(Tail(s)) ELSE s

RECURSIVE RStrip(_)
RStrip(s) == IF s # <<>> /\ s[Len(s)] = Blank THEN RStrip(SubSeq(s, 1, Len(s) - 1)) ELSE s

\* str.strip()
Strip(s) == RStrip(LStrip(s))

\* Series.str.strip() leaves a missing cell missing.
StripCell(v) == IF v = NaN THEN NaN ELSE Strip(v)

\* The names the unmapped tracking refuses: 'nan', 'None', ''.
BlankNames == { <<"n", "a", "n">>, <<"None">>, <<>> }

\* Series.str.contains('Interco', case=False, na=False)
IntercoTokens == {"Interco", "INTERCO", "interco"}

ContainsInterco(name) == name # NaN /\ \E i \in DOMAIN name : name[i] \in IntercoTokens

LegacyLabel == <<"eCommerce", " ", "(excl.", " ", "USA)">>

NewLabel == <<"eCommerce", " ", "EU", " ", "(incl.", " ", "UK)">>

\* Series.replace(LegacyLabel, NewLabel)
ReplaceLabel(v) == IF v = LegacyLabel THEN NewLabel ELSE v

Switzerland == <<"Switzerland">>

EmpEntities == {"GmbH", "AG"}

\* The classification columns copied from a mapping row.
ClassCols == {"Market_Group", "Region", "Channel_Level", "Company_Group", "Sales_Employee_Cleaned"}

NoClass == [c \in ClassCols |-> NaN]

-----------------------------------------------------------------------------
(* Sequence helpers *)

RECURSIVE SeqsUpTo(_, _)
SeqsUpTo(S, n) ==
    IF n = 0 THEN { <<>> }
    ELSE LET shorter == SeqsUpTo(S, n - 1)
         IN  shorter \cup { Append(s, x) : s \in {t \in shorter : Len(t) = n - 1}, x \in S }

\* The rows of seq at the indices in idx, in order.
RECURSIVE Pick(_, _, _)
Pick(seq, idx, i) ==
    IF i > Len(seq) THEN <<>>
    ELSE (IF i \in idx THEN <<seq[i]>> ELSE <<>>) \o Pick(seq, idx, i + 1)

-----------------------------------------------------------------------------
(* apply_mappings: the mapping indices *)

MapKeyCols == {"Sales_Employee", "Customer_Name"}

\* mapping_df.apply(lambda x: x.str.strip() ...): every text column is stripped.
CleanMapping(m) == [i \in DOMAIN m |-> [c \in DOMAIN m[i] |-> StripCell(m[i][c])]]

\* A mutant of DropDuplicates: only the rows without a key are dropped.
DropNa(rows, key) == Pick(rows, { i \in DOMAIN rows : rows[i][key] # NaN }, 1)

\* A mutant of DropDuplicates: keeps the last row of a key.
DropDuplicatesKeepLast(rows, key) ==
    Pick(rows,
         { i \in DOMAIN rows :
             /\ rows[i][key] # NaN
             /\ ~ \E j \in DOMAIN rows : j > i /\ rows[j][key] = rows[i][key] },
         1)

\* .dropna(subset=[key]).drop_duplicates(subset=[key]): keep-first.
DropDuplicates(rows, key) ==
    Pick(rows,
         { i \in DOMAIN rows :
             /\ rows[i][key] # NaN
             /\ ~ \E j \in DOMAIN rows : j < i /\ rows[j][key] = rows[i][key] },
         1)

map_emp(m) == DropDuplicates(CleanMapping(m), "Sales_Employee")

map_cust(m) == DropDuplicates(CleanMapping(m), "Customer_Name")

\* The right rows a left join finds for a key: none for a missing key.
MergeRows(index, keycol, key) ==
    IF key = NaN THEN {} ELSE { i \in DOMAIN index : index[i][keycol] = key }

\* left.merge(index, left_on=keys, right_on=keycol, how='left'): a left row is
\* followed in the result by one row per right row of its key, in the order
\* of the right rows, or by one row of missing columns when no right row has
\* the key.  The joined columns are written to the field into of the row.
RECURSIVE LeftJoin(_, _, _, _, _)
LeftJoin(rows, keys, index, keycol, into) ==
    IF rows = << >> THEN << >>
    ELSE LET matched == Pick(index, MergeRows(index, keycol, keys[1]), 1)
             joined  == IF matched = << >>
                        THEN << [rows[1] EXCEPT ![into] = NoClass] >>
                        ELSE [n \in DOMAIN matched |->
                                 [rows[1] EXCEPT ![into] = [c \in ClassCols |-> matched[n][c]]]]
         IN  joined \o LeftJoin(Tail(rows), Tail(keys), index, keycol, into)

\* cust_lookup / emp_lookup: a dict filled in row order, a later row of a key
\* replacing an earlier one. keys[i] is the dict key of row i, or NaN when the
\* row is not entered.
InLookup(keys, name) == \E i \in DOMAIN keys : keys[i] # NaN /\ keys[i] = name

LookupRow(index, keys, name) ==
    LET hits == { i \in DOMAIN keys : keys[i] # NaN /\ keys[i] = name }
    IN  index[CHOOSE h \in hits : \A g \in hits : g <= h]

\* cname = str(r.get('Customer_Name', '')).strip(); entered if cname
CustLookupKeys(index) ==
    [i \in DOMAIN index |->
        LET cname == Strip(PyStr(index[i].Customer_Name))
        IN  IF cname # <<>> THEN cname ELSE NaN]

\* entered if pd.notna(se_val), under str(se_val).strip()
EmpLookupKeys(index) ==
    [i \in DOMAIN index |->
        IF index[i].Sales_Employee # NaN THEN Strip(PyStr(index[i].Sales_Employee)) ELSE NaN]

-----------------------------------------------------------------------------
(* apply_mappings: the unmapped-entity tracking *)

LedgerKey(type, name) == [entity_type |-> type, entity_name |-> name]

\* A mutant of Bump: an entry is made once and its count stays 1.
BumpOnce(ledger, key, date) ==
    IF key \in DOMAIN ledger THEN ledger
    ELSE [k \in DOMAIN ledger \cup {key} |->
             IF k = key THEN [count |-> 1, dates |-> date] ELSE ledger[k]]

\* unmapped_entities[key]['count'] += 1 and the date appended when present
\* (a defaultdict: a new key starts at count 0 and no dates).
Bump(ledger, key, date) ==
    LET old == IF key \in DOMAIN ledger THEN ledger[key] ELSE [count |-> 0, dates |-> <<>>]
        new == [count |-> old.count + 1, dates |-> old.dates \o date]
    IN  [k \in DOMAIN ledger \cup {key} |-> IF k = key THEN new ELSE ledger[k]]

OnEmployeePath(r) == r.Company_Entity \in EmpEntities

\* The rows the tracking of one type walks: those of its path whose
\* Market_Group is missing.
Unmapped(r, type) ==
    /\ (type = "employee") = OnEmployeePath(r)
    /\ r.cls.Market_Group = NaN

PathName(r, type) ==
    IF type = "employee" THEN r.Sales_Employee_Name ELSE r.Customer_Name

\* A mutant of Track: counts every row of the path, resolved or not.
RECURSIVE TrackAll(_, _, _, _)
TrackAll(ledger, rows, i, type) ==
    IF i > Len(rows) THEN ledger
    ELSE LET r == rows[i]
             name == Strip(PyStr(PathName(r, type)))
         IN  IF (type = "employee") = OnEmployeePath(r) /\ name \notin BlankNames
             THEN TrackAll(Bump(ledger, LedgerKey(type, name), r.Posting_Date), rows, i + 1, type)
             ELSE TrackAll(ledger, rows, i + 1, type)

\* A mutant of Track: a row that a filter is going to drop is not counted.
RECURSIVE TrackKept(_, _, _, _)
TrackKept(ledger, rows, i, type) ==
    IF i > Len(rows) THEN ledger
    ELSE LET r == rows[i]
             name == Strip(PyStr(PathName(r, type)))
             dropped == \/ r.Company_Entity = "Export" /\ r.Document_Type # "AR"
                        \/ r.cls.Region = Switzerland /\ r.Company_Entity # "AG"
                        \/ ContainsInterco(r.Customer_Name)
         IN  IF Unmapped(r, type) /\ name \notin BlankNames /\ ~ dropped
             THEN TrackKept(Bump(ledger, LedgerKey(type, name), r.Posting_Date), rows, i + 1, type)
             ELSE TrackKept(ledger, rows, i + 1, type)

RECURSIVE Track(_, _, _, _)
Track(ledger, rows, i, type) ==
    IF i > Len(rows) THEN ledger
    ELSE LET r == rows[i]
             name == Strip(PyStr(PathName(r, type)))
         IN  IF Unmapped(r, type) /\ name \notin BlankNames
             THEN Track(Bump(ledger, LedgerKey(type, name), r.Posting_Date), rows, i + 1, type)
             ELSE Track(ledger, rows, i + 1, type)

-----------------------------------------------------------------------------
(* apply_mappings: the steps *)

Frame(records) == [i \in DOMAIN records |-> records[i]]

\* 1. Employee mapping (GmbH/AG): the left join on temp_employee.
EmployeeMerge(rows, m) ==
    LET temp_employee ==
            [i \in DOMAIN rows |->
                IF OnEmployeePath(rows[i]) THEN rows[i].Sales_Employee_Name ELSE NaN]
    IN  LeftJoin(rows, temp_employee, map_emp(m), "Sales_Employee", "cls")

\* 2. Customer mapping: the left join on temp_customer; Market_Group and the
\* other classification columns exist already, so the joined ones get '_cust'.
CustomerMerge(rows, m) ==
    LET temp_customer ==
            [i \in DOMAIN rows |->
                IF OnEmployeePath(rows[i]) THEN NaN ELSE rows[i].Customer_Name]
    IN  LeftJoin(rows, temp_customer, map_cust(m), "Customer_Name", "cls_cust")

\* A mutant of FallbackClass: the employee name is tried before the customer name.
FallbackClassEmployeeFirst(r, m) ==
    LET se_name  == Strip(PyStr(r.Sales_Employee_Name))
        cust_key == Strip(PyStr(r.Customer_Name))
        ckeys    == CustLookupKeys(map_cust(m))
        ekeys    == EmpLookupKeys(map_emp(m))
        Copy(row) == [c \in ClassCols |-> IF row[c] # NaN THEN row[c] ELSE r.cls[c]]
    IN  IF se_name # <<>> /\ InLookup(ekeys, se_name)
            THEN Copy(LookupRow(map_emp(m), ekeys, se_name))
        ELSE IF cust_key # <<>> /\ InLookup(ckeys, cust_key)
            THEN Copy(LookupRow(map_cust(m), ckeys, cust_key))
        ELSE IF cust_key # <<>> /\ InLookup(ekeys, cust_key)
            THEN Copy(LookupRow(map_emp(m), ekeys, cust_key))
        ELSE r.cls

\* A mutant of FallbackClass: the record's names are looked up without strip().
FallbackClassNoStrip(r, m) ==
    LET se_name  == PyStr(r.Sales_Employee_Name)
        cust_key == PyStr(r.Customer_Name)
        ckeys    == CustLookupKeys(map_cust(m))
        ekeys    == EmpLookupKeys(map_emp(m))
        Copy(row) == [c \in ClassCols |-> IF row[c] # NaN THEN row[c] ELSE r.cls[c]]
    IN  IF cust_key # <<>> /\ InLookup(ckeys, cust_key)
            THEN Copy(LookupRow(map_cust(m), ckeys, cust_key))
        ELSE IF se_name # <<>> /\ InLookup(ekeys, se_name)
            THEN Copy(LookupRow(map_emp(m), ekeys, se_name))
        ELSE IF cust_key # <<>> /\ InLookup(ekeys, cust_key)
            THEN Copy(LookupRow(map_emp(m), ekeys, cust_key))
        ELSE r.cls

\* The classification the exact-match loop writes on one row of mask_unmapped.
FallbackClass(r, m) ==
    LET se_name  == Strip(PyStr(r.Sales_Employee_Name))
        cust_key == Strip(PyStr(r.Customer_Name))
        ckeys    == CustLookupKeys(map_cust(m))
        ekeys    == EmpLookupKeys(map_emp(m))
        Copy(row) == [c \in ClassCols |-> IF row[c] # NaN THEN row[c] ELSE r.cls[c]]
    IN  IF cust_key # <<>> /\ InLookup(ckeys, cust_key)
            THEN Copy(LookupRow(map_cust(m), ckeys, cust_key))
        ELSE IF se_name # <<>> /\ InLookup(ekeys, se_name)
            THEN Copy(LookupRow(map_emp(m), ekeys, se_name))
        ELSE IF cust_key # <<>> /\ InLookup(ekeys, cust_key)
            THEN Copy(LookupRow(map_emp(m), ekeys, cust_key))
        ELSE r.cls

ExactMatchPass(rows, m) ==
    [i \in DOMAIN rows |->
        IF ~ OnEmployeePath(rows[i]) /\ rows[i].cls.Market_Group = NaN
        THEN [rows[i] EXCEPT !.cls = FallbackClass(rows[i], m)]
        ELSE rows[i]]

\* Combine: prefer the employee columns, else the '_cust' ones, which are dropped.
Combine(rows) ==
    [i \in DOMAIN rows |->
        [rows[i] EXCEPT
            !.cls = [c \in ClassCols |-> IF rows[i].cls[c] = NaN THEN rows[i].cls_cust[c]
                                         ELSE rows[i].cls[c]],
            !.cls_cust = NoClass]]

\* A mutant of ExportNonAR: a document type other than AR drops a record of any entity.
NonAR(r) == r.Document_Type # "AR"

\* A mutant of SwissNonAG: every record of the region is dropped.
Swiss(r) == r.cls.Region = Switzerland

\* A mutant of Interco: the match is case-sensitive.
IntercoAsWritten(r) ==
    r.Customer_Name # NaN /\ \E i \in DOMAIN r.Customer_Name : r.Customer_Name[i] = "Interco"

\* (Company Entity == 'Export') & (Document Type != 'AR')
ExportNonAR(r) == r.Company_Entity = "Export" /\ r.Document_Type # "AR"

SwissNonAG(r) == r.cls.Region = Switzerland /\ r.Company_Entity # "AG"

Interco(r) == ContainsInterco(r.Customer_Name)

\* sales_df[~(...)]: each filter runs only on a frame that still has rows.
FilterExport(rows) ==
    IF Len(rows) > 0 THEN Pick(rows, { i \in DOMAIN rows : ~ ExportNonAR(rows[i]) }, 1) ELSE rows

FilterSwiss(rows) ==
    IF Len(rows) > 0 THEN Pick(rows, { i \in DOMAIN rows : ~ SwissNonAG(rows[i]) }, 1) ELSE rows

FilterInterco(rows) ==
    IF Len(rows) > 0 THEN Pick(rows, { i \in DOMAIN rows : ~ Interco(rows[i]) }, 1) ELSE rows

LabelCols == {"Channel_Level", "Sales_Employee_Cleaned", "Region"}

\* A mutant of Normalize: only Channel_Level is rewritten.
NormalizeChannelLevel(rows) ==
    [i \in DOMAIN rows |->
        [rows[i] EXCEPT !.cls.Channel_Level = ReplaceLabel(rows[i].cls.Channel_Level)]]

Normalize(rows) ==
    [i \in DOMAIN rows |->
        [rows[i] EXCEPT !.cls = [c \in ClassCols |-> IF c \in LabelCols THEN ReplaceLabel(rows[i].cls[c])
                                                     ELSE rows[i].cls[c]]]]

RECURSIVE MinOf(_)
MinOf(s) == IF Len(s) = 1 THEN s[1] ELSE LET t == MinOf(Tail(s)) IN IF s[1] <= t THEN s[1] ELSE t

RECURSIVE MaxOf(_)
MaxOf(s) == IF Len(s) = 1 THEN s[1] ELSE LET t == MaxOf(Tail(s)) IN IF s[1] >= t THEN s[1] ELSE t

\* The rows of unmapped_entities_<timestamp>.csv; first_seen / last_seen are
\* <<>> for 'N/A'.  The order of the file is not modelled.
UnmappedCsv(ledger) ==
    { [entity_type |-> k.entity_type,
       entity_name |-> k.entity_name,
       count       |-> ledger[k].count,
       first_seen  |-> IF ledger[k].dates # <<>> THEN <<MinOf(ledger[k].dates)>> ELSE <<>>,
       last_seen   |-> IF ledger[k].dates # <<>> THEN <<MaxOf(ledger[k].dates)>> ELSE <<>>]
      : k \in DOMAIN ledger }

\* The columns a mapping table is expected to have, and the cleaned owner
\* column that both lookups select beside them.
ExpectedCols ==
    {"Sales_Employee", "Customer_Name", "Market_Group", "Region", "Channel_Level", "Company_Group"}

MapColumns == ExpectedCols \cup {"Sales_Employee_Cleaned"}

\* emp_cols and cust_cols: mapping_df[cols] raises KeyError unless the table
\* has every one of them.
emp_cols == {"Sales_Employee"} \cup ClassCols

cust_cols == {"Customer_Name"} \cup ClassCols

\* 1. The employee block runs if the table has a Sales_Employee column.
EmployeeMapping ==
    /\ map_pc = "start"
    /\ IF "Sales_Employee" \notin mapping_columns
       THEN /\ map_pc' = "employee_mapped"
            /\ UNCHANGED <<sales_df, unmapped_entities>>
       ELSE IF ~ (emp_cols \subseteq mapping_columns)
       THEN /\ map_pc' = "raised"
            /\ UNCHANGED <<sales_df, unmapped_entities>>
       ELSE LET merged == EmployeeMerge(sales_df, mapping_df)
            IN  /\ sales_df' = merged
                /\ unmapped_entities' = Track(unmapped_entities, merged, 1, "employee")
                /\ map_pc' = "employee_mapped"
    /\ UNCHANGED <<mapping_df, mapping_columns, sales_in, unmapped_records>>
    /\ UNCHANGED otherThanMap

\* 2. The customer block runs if the table has a Customer_Name column; the
\* combine step follows in either case.
CustomerMapping ==
    /\ map_pc = "employee_mapped"
    /\ IF "Customer_Name" \notin mapping_columns
       THEN /\ map_pc' = "mapped"
            /\ sales_df' = Combine(sales_df)
            /\ UNCHANGED unmapped_entities
       ELSE IF ~ (cust_cols \subseteq mapping_columns)
       THEN /\ map_pc' = "raised"
            /\ UNCHANGED <<sales_df, unmapped_entities>>
       ELSE LET merged == ExactMatchPass(CustomerMerge(sales_df, mapping_df), mapping_df)
            IN  /\ unmapped_entities' = Track(unmapped_entities, merged, 1, "customer")
                /\ sales_df' = Combine(merged)
                /\ map_pc' = "mapped"
    /\ UNCHANGED <<mapping_df, mapping_columns, sales_in, unmapped_records>>
    /\ UNCHANGED otherThanMap

ApplyFilters ==
    /\ map_pc = "mapped"
    /\ sales_df' = FilterInterco(FilterSwiss(FilterExport(sales_df)))
    /\ map_pc' = "filtered"
    /\ UNCHANGED <<mapping_df, mapping_columns, sales_in, unmapped_entities, unmapped_records>>
    /\ UNCHANGED otherThanMap

NormalizeAndExport ==
    /\ map_pc = "filtered"
    /\ sales_df' = Normalize(sales_df)
    /\ unmapped_records' = UnmappedCsv(unmapped_entities)
    /\ map_pc' = "returned"
    /\ UNCHANGED <<mapping_df, mapping_columns, sales_in, unmapped_entities>>
    /\ UNCHANGED otherThanMap

-----------------------------------------------------------------------------
(* apply_mappings: the inputs *)

T(w) == <<w>>

MapRow(emp, cust, mg, region, channel, cgroup, cleaned) ==
    [Sales_Employee |-> emp, Customer_Name |-> cust, Market_Group |-> mg, Region |-> region,
     Channel_Level |-> channel, Company_Group |-> cgroup, Sales_Employee_Cleaned |-> cleaned]

MapRowPool ==
    { MapRow(T("A"), NaN, T("Europe"), Switzerland, T("Direct"), T("Group A"), T("A")),
      MapRow(<<"A", Blank>>, NaN, T("USA"), T("USA-East"), T("Spa"), T("Group B"), T("A2")),
      MapRow(NaN, T("B"), T("USA"), T("USA-West"), LegacyLabel, T("Group C"), T("B Rep")),
      MapRow(NaN, <<Blank, "B">>, T("Europe"), LegacyLabel, T("Retail"), T("Group D"), LegacyLabel),
      MapRow(T("Z"), NaN, NaN, T("UK"), NaN, T("Group E"), NaN) }

SalesRow(emp, cust, entity, doc, date) ==
    [Sales_Employee_Name |-> emp, Customer_Name |-> cust, Company_Entity |-> entity,
     Document_Type |-> doc, Posting_Date |-> date, cls |-> NoClass, cls_cust |-> NoClass]

SalesPool ==
    { SalesRow(T("A"), T("Y"), "GmbH", "AR", <<1>>),
      SalesRow(T("A"), T("B"), "AG", "CN", <<2>>),
      SalesRow(T("Y"), T("A"), "GmbH", "AR", <<2>>),
      SalesRow(NaN, <<"INTERCO", Blank, "X">>, "GmbH", "AR", <<2>>),
      SalesRow(T("A"), <<"B", Blank>>, "Export", "CN", <<>>),
      SalesRow(T("Z"), T("A"), "UK", "AR", <<1>>),
      SalesRow(T("Y"), T("B"), "Export", "AR", <<1>>),
      SalesRow(T("A"), T("B"), "Export", "AR", <<2>>),
      SalesRow(T("A"), <<"interco">>, "UK", "AR", <<1>>) }

\* No generator is being constructed.
PrepareIdle ==
    /\ loaded = << >>
    /\ prepared = << >>

\* No line is displayed.
DisplayIdle ==
    /\ shown_row = << >>
    /\ shown_by = "none"
    /\ shown_cells = << >>

\* The web application is not serving.
WebIdle ==
    /\ report_status = << >>
    /\ background_tasks = << >>
    /\ responses = << >>
    /\ output_dir = {}

\* main is not running.
MainIdle ==
    /\ main_pc = "idle"
    /\ main_report = 1
    /\ main_locals = {}
    /\ main_errors = {}
    /\ dfs_to_combine = << >>
    /\ exported = << >>
    /\ main_exit = "none"

\* No report generator runs.
ReportIdle ==
    /\ variant = "none"
    /\ sections = << >>
    /\ df = << >>
    /\ budget_month = << >>
    /\ prior_month = << >>
    /\ kusd_columns = {}
    /\ missing_columns = {}
    /\ section_idx = 0
    /\ report_data = << >>
    /\ item_rows = << >>
    /\ section_totals = << >>
    /\ grand_total = << >>
    /\ report_pc = "idle"

\* apply_mappings is not running.
MapIdle ==
    /\ mapping_df = << >>
    /\ mapping_columns = {}
    /\ sales_in = << >>
    /\ sales_df = << >>
    /\ unmapped_entities = << >>
    /\ unmapped_records = {}
    /\ map_pc = "idle"

MapInit ==
    /\ mapping_df \in SeqsUpTo(MapRowPool, MaxMapRows)
    /\ mapping_columns = MapColumns
    /\ sales_in \in SeqsUpTo(SalesPool, MaxRecords)
    /\ sales_df = Frame(sales_in)
    /\ unmapped_entities = << >>
    /\ unmapped_records = {}
    /\ map_pc = "start"
    /\ ReportIdle
    /\ MainIdle
    /\ WebIdle
    /\ DisplayIdle
    /\ PrepareIdle

MapNext ==
    \/ EmployeeMapping
    \/ CustomerMapping
    \/ ApplyFilters
    \/ NormalizeAndExport

\* A mapping table that lacks columns: a cell of a column the table does not
\* have is missing in every row.
WithColumns(m, cols) ==
    [i \in DOMAIN m |-> [c \in DOMAIN m[i] |-> IF c \in cols THEN m[i][c] ELSE NaN]]

\* The tables that lack one of the expected columns.
MapColumnsInit ==
    /\ mapping_columns \in { MapColumns \ {c} : c \in ExpectedCols }
    /\ mapping_df \in { WithColumns(m, mapping_columns) : m \in SeqsUpTo(MapRowPool, MaxMapRows) }
    /\ sales_in \in SeqsUpTo(SalesPool, MaxRecords)
    /\ sales_df = Frame(sales_in)
    /\ unmapped_entities = << >>
    /\ unmapped_records = {}
    /\ map_pc = "start"
    /\ ReportIdle
    /\ MainIdle
    /\ WebIdle
    /\ DisplayIdle
    /\ PrepareIdle

-----------------------------------------------------------------------------
(* The report generators: configuration and data                            *)
(*                                                                          *)
(* An amount is an integer number of tenths of the reporting unit (kEUR or  *)
(* kUSD): 3000 is 300.0, 3 is 0.3.  A title or label is a sequence of       *)
(* tokens; a dimension value (company, market, region, channel, owner) is a *)
(* string, compared by equality only.                                       *)

\* Python None: section.get(k) / item.get(k) of a key that is not configured.
None == "\\None"

\* Python truthiness of a configured string.
Truthy(v) == v # None /\ v # ""

\* key.startswith(prefix) and key.endswith(suffix) on token sequences.
StartsWith(s, prefix) ==
    Len(s) >= Len(prefix) /\ SubSeq(s, 1, Len(prefix)) = prefix

EndsWith(s, suffix) ==
    Len(s) >= Len(suffix) /\ SubSeq(s, Len(s) - Len(suffix) + 1, Len(s)) = suffix

\* key.startswith('Company ') and key.endswith(' Sales')
IsCompanySalesTitle(key) ==
    StartsWith(key, <<"Company", " ">>) /\ EndsWith(key, <<" ", "Sales">>)

\* 'Sales' in section['title']
SalesInTitle(title) == \E i \in DOMAIN title : title[i] = "Sales"

\* section.get('title') in ['Core Markets', 'UK', 'USA', 'Export']
ComponentTitles ==
    { <<"Core", " ", "Markets">>, <<"UK">>, <<"USA">>, <<"Export">> }

\* The sum of column col over the rows of frame at the positions in idx
\* (frame[mask][col].sum(); the sum of no row is 0).
RECURSIVE SumCol(_, _, _)
SumCol(frame, idx, col) ==
    IF idx = {} THEN 0
    ELSE LET i == CHOOSE j \in idx : TRUE
         IN frame[i][col] + SumCol(frame, idx \ {i}, col)

Abs(x) == IF x < 0 THEN -x ELSE x


\* A mutant of Kind: is_unmapped is tested last, after is_total.
KindUnmappedLast(section) ==
    IF section.is_grand_total THEN "grand_total"
    ELSE IF section.is_total THEN "total"
    ELSE IF section.is_unmapped THEN "unmapped"
    ELSE "leaf"

\* A mutant of Kind: is_total is tested first, then is_grand_total, then
\* is_unmapped.
KindTotalFirst(section) ==
    IF section.is_total THEN "total"
    ELSE IF section.is_grand_total THEN "grand_total"
    ELSE IF section.is_unmapped THEN "unmapped"
    ELSE "leaf"

\* The flags a section node carries, tested in the order of the loop body:
\* is_grand_total, then is_unmapped, then is_total; no flag is a leaf group.
Kind(section) ==
    IF section.is_grand_total THEN "grand_total"
    ELSE IF section.is_unmapped THEN "unmapped"
    ELSE IF section.is_total THEN "total"
    ELSE "leaf"

\* The titles a component-total sums:
\* section['items'] if 'items' in section else section.get('components', [])
ComponentRefs(section) ==
    IF section.items_key THEN section.titles ELSE section.components

\* section_totals[title] = totals
Store(totals, title, entry) ==
    [t \in (DOMAIN totals) \cup {title} |-> IF t = title THEN entry ELSE totals[t]]

\* The spacer line that closes a leaf section (management and GVL schema).
Spacer ==
    [label |-> << >>, sales |-> 0, budget |-> 0, prior |-> 0,
     is_spacer |-> TRUE, is_total |-> FALSE, is_grand_total |-> FALSE, absent |-> {}]

\* A line of the management and GVL reports.  absent names the flag keys the
\* line's dict does not hold; their cells are NaN in the DataFrame.
Line(label, sales, budget, prior, is_total, absent) ==
    [label |-> label, sales |-> sales, budget |-> budget, prior |-> prior,
     is_spacer |-> FALSE, is_total |-> is_total, is_grand_total |-> FALSE,
     absent |-> absent]

\* df[col].astype(bool) of the flag columns: bool(NaN) is True.
AsTypeBool(rows) ==
    [i \in DOMAIN rows |->
        [rows[i] EXCEPT !.is_spacer = @ \/ ("is_spacer" \in rows[i].absent),
                        !.is_total = @ \/ ("is_total" \in rows[i].absent),
                        !.is_grand_total = @ \/ ("is_grand_total" \in rows[i].absent),
                        !.absent = {}]]

-----------------------------------------------------------------------------
(* ManagementReportGenerator.calculate_report                               *)

\* The base filters of a leaf section over a frame with Company_Group and
\* Market_Group columns.
SectionMask(frame, section) ==
    { i \in DOMAIN frame :
        /\ frame[i].Company_Group = section.company_group
        /\ Truthy(section.market_group) => frame[i].Market_Group = section.market_group }

\* The budget column of a section: Value_kUSD for the USA market group when
\* the budget file has that column, Value_kEUR otherwise.
BudgetCol(section) ==
    IF section.market_group = "USA" /\ "budget_month" \in kusd_columns THEN "Value_kUSD" ELSE "Value_kEUR"

\* section_total_sales, section_total_budget, section_total_prior
MgmtSectionTotals(section) ==
    [sales |-> SumCol(df, SectionMask(df, section), "kEUR"),
     budget |-> SumCol(budget_month, SectionMask(budget_month, section), BudgetCol(section)),
     prior |-> SumCol(prior_month, SectionMask(prior_month, section), "Value_kEUR")]

\* The sales mask of an explicit item.
ItemSalesMask(section, item) ==
    { i \in SectionMask(df, section) :
        /\ section.type = "region" => df[i].Region = item.filter_value
        /\ section.type = "channel" => df[i].Channel_Level = item.filter_value }

\* The budget/prior mask of an explicit item over a reference frame.
ItemRefMask(frame, section, item) ==
    LET has_map == item.budget_region_map # None
        b_filter_val == IF has_map THEN item.budget_region_map ELSE item.filter_value
        lookup_col == IF has_map THEN "Region"
                      ELSE IF section.type = "region" THEN "Region" ELSE "Channel_Level"
    IN { i \in SectionMask(frame, section) : frame[i][lookup_col] = b_filter_val }

\* val_sales, val_budget, val_prior of an explicit item.
MgmtItemValues(section, item) ==
    [sales |-> SumCol(df, ItemSalesMask(section, item), "kEUR"),
     budget |-> SumCol(budget_month, ItemRefMask(budget_month, section, item), BudgetCol(section)),
     prior |-> SumCol(prior_month, ItemRefMask(prior_month, section, item), "Value_kEUR")]

\* allocated_sales, allocated_budget, allocated_prior after the first n items
\* of the section (the fallback placeholders allocate nothing).
RECURSIVE Allocated(_, _)
Allocated(section, n) ==
    IF n = 0 THEN [sales |-> 0, budget |-> 0, prior |-> 0]
    ELSE LET rest == Allocated(section, n - 1)
             item == section.items[n]
             v == MgmtItemValues(section, item)
         IN IF item.is_fallback THEN rest
            ELSE [sales |-> rest.sales + v.sales,
                  budget |-> rest.budget + v.budget,
                  prior |-> rest.prior + v.prior]

\* The fallback threshold 0.1, in tenths.
FallbackThreshold == 1

ShowFallbackHalf(rem) ==
    Abs(rem.sales) >= 5 \/ Abs(rem.budget) >= 5 \/ Abs(rem.prior) >= 5

\* abs(rem_sales) > 0.1 or abs(rem_budget) > 0.1 or abs(rem_prior) > 0.1
ShowFallback(rem) ==
    \/ Abs(rem.sales) > FallbackThreshold
    \/ Abs(rem.budget) > FallbackThreshold
    \/ Abs(rem.prior) > FallbackThreshold

\* The position of the first fallback item of a section (0: none).
FallbackPos(section) ==
    IF \E n \in DOMAIN section.items : section.items[n].is_fallback
    THEN CHOOSE n \in DOMAIN section.items :
            /\ section.items[n].is_fallback
            /\ \A m \in 1..(n - 1) : ~section.items[m].is_fallback
    ELSE 0

Minus(t, a) ==
    CHOOSE m \in
        { [sales |-> x.sales - y.sales, budget |-> x.budget - y.budget,
           prior |-> x.prior - y.prior] : x \in {t}, y \in {a} } : TRUE

RemainderBefore(section) ==
    Minus(MgmtSectionTotals(section), Allocated(section, FallbackPos(section)))

\* rem_sales, rem_budget, rem_prior: computed after the item loop, so from
\* the amounts allocated by every explicit item of the section.
Remainder(section) ==
    Minus(MgmtSectionTotals(section), Allocated(section, Len(section.items)))

\* The item lines of a leaf section, in declaration order; a fallback line
\* without value is removed.
RECURSIVE MgmtItemRows(_, _)
MgmtItemRows(section, n) ==
    IF n = 0 THEN << >>
    ELSE LET item == section.items[n]
             v == IF item.is_fallback THEN Remainder(section)
                  ELSE MgmtItemValues(section, item)
             row == Line(item.label, v.sales, v.budget, v.prior, FALSE, {"is_grand_total"})
         IN IF item.is_fallback /\ ~ShowFallback(v)
            THEN MgmtItemRows(section, n - 1)
            ELSE Append(MgmtItemRows(section, n - 1), row)

\* The section total line, shown if requested or if the title is a component.
MgmtShowTotal(section) ==
    section.show_total \/ section.title \in ComponentTitles

MgmtTotalRows(section) ==
    LET t == MgmtSectionTotals(section)
    IN IF MgmtShowTotal(section)
       THEN << Line(section.title, t.sales, t.budget, t.prior, TRUE,
                    {"is_spacer", "is_grand_total"}) >>
       ELSE << >>

\* The deduction of the grand total: the stored totals whose key reads
\* 'Company ... Sales'.
Deduction(totals) ==
    LET keys == { k \in DOMAIN totals : IsCompanySalesTitle(k) }
    IN [sales |-> SumCol(totals, keys, "sales"),
        budget |-> SumCol(totals, keys, "budget"),
        prior |-> SumCol(totals, keys, "prior")]

-----------------------------------------------------------------------------
(* GVLReportGenerator.calculate_report                                      *)

\* _get_budget_value / _get_prior_value: the Value_kEUR of the first row of
\* the reference frame whose Sales_Employee_Cleaned is the salesperson, 0 if
\* there is none.
FirstValue(frame, salesperson) ==
    LET hits == { i \in DOMAIN frame : frame[i].Sales_Employee_Cleaned = salesperson }
    IN IF hits = {} THEN 0
       ELSE frame[CHOOSE i \in hits : \A j \in hits : i <= j].Value_kEUR

\* val_sales, val_budget, val_prior of an item of a GVL section.
GvlItemValues(item) ==
    [sales |-> SumCol(df, { i \in DOMAIN df :
                              df[i].Sales_Employee_Cleaned = item.filter_value }, "kEUR"),
     budget |-> FirstValue(budget_month, item.filter_value),
     prior |-> FirstValue(prior_month, item.filter_value)]

\* sec_sales, sec_budget, sec_prior after the first n items of the section.
RECURSIVE GvlItemSums(_, _)
GvlItemSums(section, n) ==
    IF n = 0 THEN [sales |-> 0, budget |-> 0, prior |-> 0]
    ELSE LET rest == GvlItemSums(section, n - 1)
             item == section.items[n]
             v == GvlItemValues(item)
         IN IF Truthy(item.filter_value)
            THEN [sales |-> rest.sales + v.sales,
                  budget |-> rest.budget + v.budget,
                  prior |-> rest.prior + v.prior]
            ELSE rest

\* sec_sales, sec_budget, sec_prior of a leaf section.
GvlSectionTotals(section) ==
    IF section.items_key THEN GvlItemSums(section, Len(section.items))
    ELSE IF Truthy(section.sales_employee)
    THEN [sales |-> SumCol(df, { i \in DOMAIN df :
                                   df[i].Sales_Employee_Cleaned = section.sales_employee }, "kEUR"),
          budget |-> FirstValue(budget_month, section.sales_employee),
          prior |-> 0]
    ELSE [sales |-> 0, budget |-> 0, prior |-> 0]

\* The lines of the first n items of a GVL section.
RECURSIVE GvlItemRows(_, _)
GvlItemRows(section, n) ==
    IF n = 0 THEN << >>
    ELSE LET item == section.items[n]
             v == GvlItemValues(item)
         IN IF Truthy(item.filter_value)
            THEN Append(GvlItemRows(section, n - 1),
                        Line(item.label, v.sales, v.budget, v.prior, FALSE, {"is_grand_total"}))
            ELSE GvlItemRows(section, n - 1)

\* rows of a leaf section.
GvlRows(section) ==
    LET t == GvlSectionTotals(section)
    IN IF section.items_key THEN GvlItemRows(section, Len(section.items))
       ELSE IF Truthy(section.sales_employee)
       THEN << Line(section.title, t.sales, t.budget, t.prior, FALSE, {"is_grand_total"}) >>
       ELSE << >>

GvlTotalRows(section) ==
    LET t == GvlSectionTotals(section)
    IN IF section.show_total
       THEN << Line(section.title, t.sales, t.budget, t.prior, TRUE, {"is_grand_total"}) >>
       ELSE << >>

-----------------------------------------------------------------------------
(* The component-total of the management and GVL reports                    *)

\* The sum of the totals that totals holds for the titles of refs, one term a
\* reference; a title without an entry adds nothing.
RECURSIVE SumRefs(_, _)
SumRefs(refs, totals) ==
    IF refs = << >> THEN [sales |-> 0, budget |-> 0, prior |-> 0]
    ELSE LET rest == SumRefs(Tail(refs), totals)
             comp == Head(refs)
         IN IF comp \in DOMAIN totals
            THEN [sales |-> rest.sales + totals[comp].sales,
                  budget |-> rest.budget + totals[comp].budget,
                  prior |-> rest.prior + totals[comp].prior]
            ELSE rest

\* The totals of a leaf section in the variant that runs.
LeafTotals(section) ==
    IF variant = "gvl" THEN GvlSectionTotals(section) ELSE MgmtSectionTotals(section)

\* section_totals as it is once the first n sections are processed: only the
\* leaf sections store an entry, a later one of the same title replacing it.
RECURSIVE StoredAfter(_)
StoredAfter(n) ==
    IF n = 0 THEN << >>
    ELSE IF Kind(sections[n]) = "leaf"
    THEN Store(StoredAfter(n - 1), sections[n].title, LeafTotals(sections[n]))
    ELSE StoredAfter(n - 1)

ComponentTotalForward(section, totals) ==
    SumRefs(ComponentRefs(section), StoredAfter(Len(sections)))

\* t_sales, t_budget, t_prior of a component-total section.
ComponentTotal(section, totals) ==
    SumRefs(ComponentRefs(section), totals)

-----------------------------------------------------------------------------
(* USASpaReportGenerator.calculate_report                                   *)

\* A percentage (actual / ref * 100) - 100 is the exact fraction <<n, d>>;
\* the 0 of a zero reference is <<0, 1>>.
Zero == <<0, 1>>

PctDelta(actual, ref) ==
    IF ref # 0 THEN <<actual * 100 - ref * 100, ref>> ELSE Zero

\* budget_region_kusd, budget_region_keur, prior_region_kusd,
\* prior_region_keur: the sum of col by Region; an empty series when the frame
\* has no such column.
RegionIndex(name, frame, col) ==
    IF col = "Value_kUSD" /\ name \notin kusd_columns THEN {}
    ELSE { frame[i].Region : i \in DOMAIN frame }

RegionSum(frame, col, region) ==
    SumCol(frame, { i \in DOMAIN frame : frame[i].Region = region }, col)

\* The reference value of a region: the kUSD sum when it is present and not
\* zero, else the kEUR sum when it is present, else 0.
RegionValue(name, frame, region) ==
    IF region \in RegionIndex(name, frame, "Value_kUSD")
       /\ RegionSum(frame, "Value_kUSD", region) # 0
    THEN RegionSum(frame, "Value_kUSD", region)
    ELSE IF region \in RegionIndex(name, frame, "Value_kEUR")
    THEN RegionSum(frame, "Value_kEUR", region)
    ELSE 0

\* The seven measures of a line from its actual, budget and prior.
Measures(actual, budget, prior) ==
    [actual |-> actual, budget |-> budget, prior |-> prior,
     diff_budget |-> actual - budget, pct_budget |-> PctDelta(actual, budget),
     diff_prior |-> actual - prior, pct_prior |-> PctDelta(actual, prior)]

ZeroMeasures == Measures(0, 0, 0)

\* a + b on actual, budget, prior and the differences, the percentages
\* recalculated from the sums (x and y are the values of a and b).
AddMeasures(a, b) ==
    CHOOSE m \in
        { [actual |-> x.actual + y.actual, budget |-> x.budget + y.budget,
           prior |-> x.prior + y.prior,
           diff_budget |-> x.diff_budget + y.diff_budget,
           pct_budget |-> PctDelta(x.actual + y.actual, x.budget + y.budget),
           diff_prior |-> x.diff_prior + y.diff_prior,
           pct_prior |-> PctDelta(x.actual + y.actual, x.prior + y.prior)]
          : x \in {a}, y \in {b} } : TRUE

\* A line of the USA Spa report.
UsaLine(label, m, is_total, absent) ==
    [label |-> label, actual |-> m.actual, budget |-> m.budget, prior |-> m.prior,
     diff_budget |-> m.diff_budget, pct_budget |-> m.pct_budget,
     diff_prior |-> m.diff_prior, pct_prior |-> m.pct_prior,
     is_spacer |-> FALSE, is_total |-> is_total, is_grand_total |-> FALSE,
     absent |-> absent]

UsaSpacer ==
    [UsaLine(<< >>, ZeroMeasures, FALSE, {}) EXCEPT !.is_spacer = TRUE]

\* val_actual, val_budget, val_prior and the differences of a region.
UsaRegionValues(region) ==
    Measures(SumCol(df, { i \in DOMAIN df : df[i].Region = region }, "kVAL"),
             RegionValue("budget_month", budget_month, region),
             RegionValue("prior_month", prior_month, region))

AllZero(m) == m.actual = 0 /\ m.budget = 0 /\ m.prior = 0

\* sec_* after the first n items of the section.
RECURSIVE UsaItemSums(_, _)
UsaItemSums(section, n) ==
    IF n = 0 THEN ZeroMeasures
    ELSE LET item == section.items[n]
         IN IF Truthy(item.filter_value)
            THEN AddMeasures(UsaItemSums(section, n - 1), UsaRegionValues(item.filter_value))
            ELSE UsaItemSums(section, n - 1)

\* sec_* of a leaf section.
UsaSectionTotals(section) ==
    IF section.items_key THEN UsaItemSums(section, Len(section.items))
    ELSE IF Truthy(section.region) THEN UsaRegionValues(section.region)
    ELSE ZeroMeasures

\* The lines of the first n items: an item without any value has no line.
RECURSIVE UsaItemRows(_, _)
UsaItemRows(section, n) ==
    IF n = 0 THEN << >>
    ELSE LET item == section.items[n]
             v == UsaRegionValues(item.filter_value)
         IN IF Truthy(item.filter_value) /\ ~AllZero(v)
            THEN Append(UsaItemRows(section, n - 1),
                        UsaLine(item.label, v, FALSE, {"is_grand_total"}))
            ELSE UsaItemRows(section, n - 1)

UsaRows(section) ==
    LET t == UsaSectionTotals(section)
    IN IF section.items_key THEN UsaItemRows(section, Len(section.items))
       ELSE IF Truthy(section.region) /\ ~AllZero(t)
       THEN << UsaLine(section.title, t, FALSE, {"is_spacer", "is_grand_total"}) >>
       ELSE << >>

UsaTotalRows(section) ==
    IF section.show_total
    THEN << UsaLine(section.title, UsaSectionTotals(section), TRUE, {"is_grand_total"}) >>
    ELSE << >>

\* t_* of a component-total section.
RECURSIVE UsaSumRefs(_, _)
UsaSumRefs(refs, totals) ==
    IF refs = << >> THEN ZeroMeasures
    ELSE LET comp == refs[Len(refs)]
             rest == UsaSumRefs(SubSeq(refs, 1, Len(refs) - 1), totals)
         IN IF comp \in DOMAIN totals THEN AddMeasures(rest, totals[comp]) ELSE rest

UsaComponentTotal(section, totals) ==
    UsaSumRefs(ComponentRefs(section), totals)

-----------------------------------------------------------------------------
(* calculate_report: one step per section of config['sections']             *)

\* The section the loop is at.
\* A mutant of Section: the sections are taken from the last to the first.
SectionFromLast == sections[Len(sections) - section_idx]

Section == sections[section_idx + 1]

AtSection(v, kind) ==
    /\ report_pc = "loop"
    /\ variant = v
    /\ section_idx < Len(sections)
    /\ Kind(Section) = kind

\* The grand-total line.
GrandLine(title, sales, budget, prior) ==
    [Line(title, sales, budget, prior, TRUE, {}) EXCEPT !.is_grand_total = TRUE]

\* Management: the grand total less the stored 'Company ... Sales' totals.
MgmtGrandTotal ==
    /\ AtSection("management", "grand_total")
    /\ LET d == Deduction(section_totals)
       IN report_data' = Append(report_data,
              GrandLine(Section.title, grand_total.Sales - d.sales,
                        grand_total.Budget - d.budget, grand_total.Prior - d.prior))
    /\ section_idx' = section_idx + 1
    /\ UNCHANGED <<section_totals, grand_total, item_rows, report_pc>>
    /\ UNCHANGED <<reportConfig, otherThanReport>>

\* Management: a component-total is emitted and added to the grand total.
MgmtTotal ==
    /\ AtSection("management", "total")
    /\ LET t == ComponentTotal(Section, section_totals)
       IN /\ report_data' = Append(report_data,
                 Line(Section.title, t.sales, t.budget, t.prior, TRUE, {}))
          /\ grand_total' = [Sales |-> grand_total.Sales + t.sales,
                             Budget |-> grand_total.Budget + t.budget,
                             Prior |-> grand_total.Prior + t.prior]
    /\ section_idx' = section_idx + 1
    /\ UNCHANGED <<section_totals, item_rows, report_pc>>
    /\ UNCHANGED <<reportConfig, otherThanReport>>

\* The frames of a generator.
Frames == {"df", "budget_month", "prior_month"}

\* The <<frame, column>> pairs a management leaf section indexes: the base
\* masks, then the masks of each explicit item.
MgmtColumnsRead(section) ==
    LET item_column ==
            IF section.type = "region" THEN {"Region"}
            ELSE IF section.type = "channel" THEN {"Channel_Level"}
            ELSE {}
        lookup_col(item) ==
            IF item.budget_region_map # None THEN "Region"
            ELSE IF section.type = "region" THEN "Region" ELSE "Channel_Level"
        explicit == { n \in DOMAIN section.items : ~ section.items[n].is_fallback }
    IN  { <<f, "Company_Group">> : f \in Frames }
        \cup (IF Truthy(section.market_group)
              THEN { <<f, "Market_Group">> : f \in Frames } ELSE {})
        \cup { <<"df", c>> : c \in IF explicit # {} THEN item_column ELSE {} }
        \cup { <<f, lookup_col(section.items[n])>> :
                  f \in {"budget_month", "prior_month"}, n \in explicit }

\* The pairs a GVL leaf section indexes: the owner column of the sales, and
\* of the budget and prior frames through _get_budget_value / _get_prior_value.
GvlColumnsRead(section) ==
    IF section.items_key
    THEN IF \E n \in DOMAIN section.items : Truthy(section.items[n].filter_value)
         THEN { <<f, "Sales_Employee_Cleaned">> : f \in Frames } ELSE {}
    ELSE IF Truthy(section.sales_employee)
    THEN { <<"df", "Sales_Employee_Cleaned">>, <<"budget_month", "Sales_Employee_Cleaned">> }
    ELSE {}

\* The pairs a USA Spa leaf section indexes: the Region of the sales.
UsaColumnsRead(section) ==
    IF section.items_key
    THEN IF \E n \in DOMAIN section.items : Truthy(section.items[n].filter_value)
         THEN { <<"df", "Region">> } ELSE {}
    ELSE IF Truthy(section.region) THEN { <<"df", "Region">> } ELSE {}

\* frame[column] of a column the frame lacks raises KeyError out of
\* calculate_report: nothing is returned.
RaiseKeyError ==
    /\ report_pc' = "raised"
    /\ UNCHANGED <<section_idx, report_data, item_rows, section_totals, grand_total>>

\* Management: a leaf section: item lines, section total line, spacer; the
\* totals are stored, and added to the grand total if the title holds 'Sales'.
MgmtLeaf ==
    /\ AtSection("management", "leaf")
    /\ IF MgmtColumnsRead(Section) \cap missing_columns # {}
       THEN RaiseKeyError
       ELSE LET t == MgmtSectionTotals(Section)
            IN /\ item_rows' = MgmtItemRows(Section, Len(Section.items))
               /\ report_data' = report_data \o item_rows' \o MgmtTotalRows(Section) \o <<Spacer>>
               /\ section_totals' = Store(section_totals, Section.title, t)
               /\ grand_total' =
                     IF SalesInTitle(Section.title)
                     THEN [Sales |-> grand_total.Sales + t.sales,
                           Budget |-> grand_total.Budget + t.budget,
                           Prior |-> grand_total.Prior + t.prior]
                     ELSE grand_total
               /\ section_idx' = section_idx + 1
               /\ UNCHANGED report_pc
    /\ UNCHANGED <<reportConfig, otherThanReport>>

\* GVL: the grand total as accumulated.
GvlGrandTotal ==
    /\ AtSection("gvl", "grand_total")
    /\ report_data' = Append(report_data,
           GrandLine(Section.title, grand_total.Sales, grand_total.Budget, grand_total.Prior))
    /\ section_idx' = section_idx + 1
    /\ UNCHANGED <<section_totals, grand_total, item_rows, report_pc>>
    /\ UNCHANGED <<reportConfig, otherThanReport>>

\* GVL: a component-total is emitted and added to the grand total.
GvlTotal ==
    /\ AtSection("gvl", "total")
    /\ LET t == ComponentTotal(Section, section_totals)
       IN /\ report_data' = Append(report_data,
                 Line(Section.title, t.sales, t.budget, t.prior, TRUE, {}))
          /\ grand_total' = [Sales |-> grand_total.Sales + t.sales,
                             Budget |-> grand_total.Budget + t.budget,
                             Prior |-> grand_total.Prior + t.prior]
    /\ section_idx' = section_idx + 1
    /\ UNCHANGED <<section_totals, item_rows, report_pc>>
    /\ UNCHANGED <<reportConfig, otherThanReport>>


\* A mutant of GvlLeaf: the totals of the leaf section are added to the grand
\* total as well.
GvlLeafAdding ==
    /\ AtSection("gvl", "leaf")
    /\ IF GvlColumnsRead(Section) \cap missing_columns # {}
       THEN RaiseKeyError
       ELSE LET t == GvlSectionTotals(Section)
            IN /\ item_rows' = GvlRows(Section)
               /\ report_data' = report_data \o item_rows' \o GvlTotalRows(Section) \o <<Spacer>>
               /\ section_totals' = Store(section_totals, Section.title, t)
               /\ grand_total' = [Sales |-> grand_total.Sales + t.sales,
                                  Budget |-> grand_total.Budget + t.budget,
                                  Prior |-> grand_total.Prior + t.prior]
               /\ section_idx' = section_idx + 1
               /\ UNCHANGED report_pc
    /\ UNCHANGED <<reportConfig, otherThanReport>>

\* GVL: a leaf section; its totals are stored, the grand total is left alone.
GvlLeaf ==
    /\ AtSection("gvl", "leaf")
    /\ IF GvlColumnsRead(Section) \cap missing_columns # {}
       THEN RaiseKeyError
       ELSE /\ item_rows' = GvlRows(Section)
            /\ report_data' = report_data \o item_rows' \o GvlTotalRows(Section) \o <<Spacer>>
            /\ section_totals' = Store(section_totals, Section.title, GvlSectionTotals(Section))
            /\ section_idx' = section_idx + 1
            /\ UNCHANGED <<grand_total, report_pc>>
    /\ UNCHANGED <<reportConfig, otherThanReport>>

\* USA Spa: the grand total as accumulated.
UsaGrandTotal ==
    /\ AtSection("usa_spa", "grand_total")
    /\ report_data' = Append(report_data,
           [UsaLine(Section.title, grand_total, TRUE, {}) EXCEPT !.is_grand_total = TRUE])
    /\ section_idx' = section_idx + 1
    /\ UNCHANGED <<section_totals, grand_total, item_rows, report_pc>>
    /\ UNCHANGED <<reportConfig, otherThanReport>>

UsaTotalAdding ==
    /\ AtSection("usa_spa", "total")
    /\ LET t == UsaComponentTotal(Section, section_totals)
       IN /\ report_data' = Append(report_data, UsaLine(Section.title, t, TRUE, {}))
          /\ grand_total' = AddMeasures(grand_total, t)
    /\ section_idx' = section_idx + 1
    /\ UNCHANGED <<section_totals, item_rows, report_pc>>
    /\ UNCHANGED <<reportConfig, otherThanReport>>

\* USA Spa: a component-total is emitted; the grand total is left alone.
UsaTotal ==
    /\ AtSection("usa_spa", "total")
    /\ report_data' = Append(report_data,
           UsaLine(Section.title, UsaComponentTotal(Section, section_totals), TRUE, {}))
    /\ section_idx' = section_idx + 1
    /\ UNCHANGED <<section_totals, grand_total, item_rows, report_pc>>
    /\ UNCHANGED <<reportConfig, otherThanReport>>

\* USA Spa: a leaf section; its totals are stored and added to the grand total.
UsaLeaf ==
    /\ AtSection("usa_spa", "leaf")
    /\ IF UsaColumnsRead(Section) \cap missing_columns # {}
       THEN RaiseKeyError
       ELSE LET t == UsaSectionTotals(Section)
            IN /\ item_rows' = UsaRows(Section)
               /\ report_data' = report_data \o item_rows' \o UsaTotalRows(Section) \o <<UsaSpacer>>
               /\ section_totals' = Store(section_totals, Section.title, t)
               /\ grand_total' = AddMeasures(grand_total, t)
               /\ section_idx' = section_idx + 1
               /\ UNCHANGED report_pc
    /\ UNCHANGED <<reportConfig, otherThanReport>>

\* Every variant: an unmapped placeholder is passed over.
SkipUnmapped ==
    /\ report_pc = "loop"
    /\ section_idx < Len(sections)
    /\ Kind(Section) = "unmapped"
    /\ section_idx' = section_idx + 1
    /\ UNCHANGED <<report_data, section_totals, grand_total, item_rows, report_pc>>
    /\ UNCHANGED <<reportConfig, otherThanReport>>

\* After the loop: the DataFrame of the lines with its flag columns cast to
\* bool.  Without any line the frame has no column and df['is_spacer'] raises
\* KeyError.
ReturnFrame ==
    /\ report_pc = "loop"
    /\ section_idx = Len(sections)
    /\ IF report_data = << >>
       THEN report_pc' = "raised" /\ UNCHANGED report_data
       ELSE report_pc' = "returned" /\ report_data' = AsTypeBool(report_data)
    /\ UNCHANGED <<section_idx, section_totals, grand_total, item_rows>>
    /\ UNCHANGED <<reportConfig, otherThanReport>>

-----------------------------------------------------------------------------
(* Configurations and data of the report runs                               *)

Variants == {"management", "gvl", "usa_spa"}

MaxSections == 3

\* A section node without any key but its title.
Node(title) ==
    [title |-> title, is_grand_total |-> FALSE, is_unmapped |-> FALSE,
     is_total |-> FALSE, items_key |-> FALSE, items |-> << >>, titles |-> << >>,
     components |-> << >>, show_total |-> FALSE, company_group |-> None,
     market_group |-> None, type |-> None, region |-> None, sales_employee |-> None]

Item(label, filter_value) ==
    [label |-> <<label>>, is_fallback |-> FALSE, filter_value |-> filter_value,
     budget_region_map |-> None]

FallbackItem(label) ==
    [label |-> <<label>>, is_fallback |-> TRUE, filter_value |-> None,
     budget_region_map |-> None]

GrandNode(title) == [Node(title) EXCEPT !.is_grand_total = TRUE]

UnmappedNode(title) == [Node(title) EXCEPT !.is_unmapped = TRUE]

ComponentsNode(title, components) ==
    [Node(title) EXCEPT !.is_total = TRUE, !.components = components]

ItemsTotalNode(title, titles) ==
    [Node(title) EXCEPT !.is_total = TRUE, !.items_key = TRUE, !.titles = titles]

CoreMarkets == <<"Core", " ", "Markets">>

Company1Sales == <<"Company", " ", "1", " ", "Sales">>

Company2Sales == <<"Company", " ", "2", " ", "Sales">>

MgmtSections ==
    { [Node(CoreMarkets) EXCEPT !.company_group = "Company 1",
            !.market_group = "Core Markets", !.type = "region", !.items_key = TRUE,
            !.items = << Item("East", "East"), FallbackItem("Other"), Item("West", "West") >>],
      [Node(<<"UK">>) EXCEPT !.company_group = "Company 1", !.market_group = "UK",
            !.type = "channel", !.items_key = TRUE,
            !.items = << Item("Retail", "Retail"), FallbackItem("Other") >>],
      [Node(<<"USA", " ", "Sales">>) EXCEPT !.company_group = "Company 1",
            !.market_group = "USA", !.type = "region", !.items_key = TRUE,
            !.items = << Item("East", "East") >>],
      [Node(Company2Sales) EXCEPT !.company_group = "Company 2", !.type = "channel",
            !.show_total = TRUE, !.items_key = TRUE,
            !.items = << Item("Spa", "Spa"),
                         [Item("Direct", "Direct") EXCEPT !.budget_region_map = "East"] >>],
      ComponentsNode(Company1Sales, << CoreMarkets, <<"UK">>, <<"Nowhere">> >>),
      ItemsTotalNode(<<"Group">>, << Company2Sales, Company1Sales, CoreMarkets >>),
      GrandNode(<<"Total", " ", "Sales">>),
      UnmappedNode(<<"Unmapped">>) }

GvlSections ==
    { [Node(<<"Team">>) EXCEPT !.items_key = TRUE, !.show_total = TRUE,
            !.items = << Item("Alice", "Alice"), Item("Bob", "Bob"), Item("Vacant", None) >>],
      [Node(<<"Carol">>) EXCEPT !.sales_employee = "Carol"],
      Node(<<"Empty">>),
      ComponentsNode(<<"All">>, << <<"Team">>, <<"Carol">>, <<"Nobody">> >>),
      ItemsTotalNode(<<"Again">>, << <<"Carol">>, <<"Carol">>, <<"All">> >>),
      GrandNode(<<"Total">>),
      UnmappedNode(<<"Unmapped">>) }

UsaSections ==
    { [Node(<<"Regions">>) EXCEPT !.items_key = TRUE, !.show_total = TRUE,
            !.items = << Item("East", "East"), Item("West", "West"),
                         Item("South", "South"), Item("Vacant", None) >>],
      [Node(<<"Central">>) EXCEPT !.region = "Central"],
      [Node(<<"South">>) EXCEPT !.region = "South"],
      ComponentsNode(<<"USA", " ", "Spa">>, << <<"Regions">>, <<"Central">>, <<"Nowhere">> >>),
      ItemsTotalNode(<<"Again">>, << <<"Central">>, <<"USA", " ", "Spa">> >>),
      GrandNode(<<"Total">>),
      UnmappedNode(<<"Unmapped">>) }

SectionPool(v) ==
    IF v = "management" THEN MgmtSections
    ELSE IF v = "gvl" THEN GvlSections
    ELSE UsaSections

\* A prepared sales record: the document is an AR invoice of the period; k is
\* its value in the k-unit of the generator (kEUR, or kVAL in the USA Spa one).
SalesRec(cg, mg, region, channel, owner, k) ==
    [Company_Group |-> cg, Market_Group |-> mg, Region |-> region,
     Channel_Level |-> channel, Sales_Employee_Cleaned |-> owner, kEUR |-> k, kVAL |-> k]

\* A row of budget_month or prior_month.
RefRec(cg, mg, region, channel, owner, keur, kusd) ==
    [Company_Group |-> cg, Market_Group |-> mg, Region |-> region,
     Channel_Level |-> channel, Sales_Employee_Cleaned |-> owner,
     Value_kEUR |-> keur, Value_kUSD |-> kusd]

MgmtSales ==
    << SalesRec("Company 1", "Core Markets", "East", "Direct", "Alice", 2000),
       SalesRec("Company 1", "Core Markets", "West", "Direct", "Bob", 800),
       SalesRec("Company 1", "UK", "London", "Retail", "Bob", 1000),
       SalesRec("Company 2", "Europe", "East", "Spa", "Carol", 700),
       SalesRec("Company 1", "USA", "East", "Spa", "Carol", 400) >>

\* The same with amounts no explicit item covers: 20.0 in Core Markets, 0.3
\* in UK.
MgmtSalesResidual ==
    MgmtSales \o
    << SalesRec("Company 1", "Core Markets", "North", "Retail", "Alice", 200),
       SalesRec("Company 1", "UK", "London", "Online", "Bob", 3) >>

MgmtBudget ==
    << RefRec("Company 1", "Core Markets", "East", "Direct", "Alice", 1900, 0),
       RefRec("Company 1", "Core Markets", "West", "Direct", "Bob", 700, 0),
       RefRec("Company 1", "UK", "London", "Retail", "Bob", 900, 0),
       RefRec("Company 2", "Europe", "East", "Direct", "Carol", 650, 0),
       RefRec("Company 1", "USA", "East", "Spa", "Carol", 300, 330) >>

\* The same with 0.4 of budget in Core Markets outside the explicit items.
MgmtBudgetResidual ==
    MgmtBudget \o << RefRec("Company 1", "Core Markets", "North", "Retail", "Alice", 4, 0) >>

MgmtPrior ==
    << RefRec("Company 1", "Core Markets", "East", "Direct", "Alice", 1500, 0),
       RefRec("Company 1", "UK", "London", "Retail", "Bob", 800, 0),
       RefRec("Company 2", "Europe", "East", "Spa", "Carol", 600, 0) >>

GvlSales ==
    << SalesRec("Company 1", "Core Markets", "East", "Direct", "Alice", 600),
       SalesRec("Company 1", "Core Markets", "West", "Direct", "Bob", 250),
       SalesRec("Company 1", "UK", "London", "Retail", "Carol", 120),
       SalesRec("Company 1", "UK", "London", "Retail", "Alice", 50) >>

GvlBudget ==
    << RefRec("Company 1", "Core Markets", "East", "Direct", "Alice", 500, 0),
       RefRec("Company 1", "UK", "London", "Retail", "Alice", 70, 0),
       RefRec("Company 1", "Core Markets", "West", "Direct", "Bob", 200, 0),
       RefRec("Company 1", "UK", "London", "Retail", "Carol", 100, 0) >>

GvlPrior ==
    << RefRec("Company 1", "Core Markets", "East", "Direct", "Alice", 450, 0),
       RefRec("Company 1", "UK", "London", "Retail", "Carol", 90, 0) >>

UsaSales ==
    << SalesRec("Company 1", "USA", "East", "Spa", "Alice", 500),
       SalesRec("Company 1", "USA", "West", "Spa", "Bob", 300),
       SalesRec("Company 1", "USA", "Central", "Spa", "Carol", 100),
       SalesRec("Company 1", "USA", "East", "Spa", "Carol", 40) >>

UsaBudget ==
    << RefRec("Company 1", "USA", "East", "Spa", "Alice", 400, 450),
       RefRec("Company 1", "USA", "West", "Spa", "Bob", 250, 0),
       RefRec("Company 1", "USA", "Central", "Spa", "Carol", 80, 0) >>

UsaPrior ==
    << RefRec("Company 1", "USA", "East", "Spa", "Alice", 380, 0),
       RefRec("Company 1", "USA", "West", "Spa", "Bob", 0, 0) >>

\* The data a generator of variant v may hold after construction:
\* df, budget_month, prior_month and the frames with a Value_kUSD column.
ReportData(v) ==
    IF v = "management"
    THEN { <<MgmtSalesResidual, MgmtBudget, MgmtPrior, {"budget_month"}>>,
           <<MgmtSales, MgmtBudgetResidual, MgmtPrior, {}>>,
           <<MgmtSales, MgmtBudget, MgmtPrior, {}>>,
           <<MgmtSalesResidual, << >>, << >>, {}>> }
    ELSE IF v = "gvl"
    THEN { <<GvlSales, GvlBudget, GvlPrior, {}>>,
           <<GvlSales, << >>, << >>, {}>> }
    ELSE { <<UsaSales, UsaBudget, UsaPrior, {"budget_month", "prior_month"}>>,
           <<UsaSales, UsaBudget, UsaPrior, {}>>,
           << << >>, << >>, << >>, {} >> }

\* grand_total = {...: 0} of the variant.
GrandZero(v) ==
    IF v = "usa_spa" THEN ZeroMeasures ELSE [Sales |-> 0, Budget |-> 0, Prior |-> 0]

ReportInit ==
    /\ MapIdle
    /\ MainIdle
    /\ WebIdle
    /\ DisplayIdle
    /\ PrepareIdle
    /\ variant \in Variants
    /\ sections \in SeqsUpTo(SectionPool(variant), MaxSections)
    /\ \E d \in ReportData(variant) :
          /\ df = d[1]
          /\ budget_month = d[2]
          /\ prior_month = d[3]
          /\ kusd_columns = d[4]
    /\ missing_columns = {}
    /\ section_idx = 0
    /\ report_data = << >>
    /\ item_rows = << >>
    /\ section_totals = << >>
    /\ grand_total = GrandZero(variant)
    /\ report_pc = "loop"

\* The dimension columns the frames of a run may lack: the Company_Group of
\* every frame (sales with Region, Market_Group and Channel_Level, reference
\* tables with Region only), the Region of the sales, or the owner column of
\* the sales.
MissingColumnSets ==
    { { <<f, "Company_Group">> : f \in Frames } \cup
        { <<f, c>> : f \in {"budget_month", "prior_month"}, c \in {"Market_Group", "Channel_Level"} },
      { <<"df", "Region">> },
      { <<"df", "Sales_Employee_Cleaned">> } }

\* A generator constructed over frames that lack dimension columns.
ReportColumnsInit ==
    /\ MapIdle
    /\ MainIdle
    /\ WebIdle
    /\ DisplayIdle
    /\ PrepareIdle
    /\ variant \in Variants
    /\ sections \in SeqsUpTo(SectionPool(variant), MaxSections)
    /\ \E d \in ReportData(variant) :
          /\ df = d[1]
          /\ budget_month = d[2]
          /\ prior_month = d[3]
          /\ kusd_columns = d[4]
    /\ missing_columns \in MissingColumnSets
    /\ section_idx = 0
    /\ report_data = << >>
    /\ item_rows = << >>
    /\ section_totals = << >>
    /\ grand_total = GrandZero(variant)
    /\ report_pc = "loop"


\* Section nodes that carry more than one of the flags is_total,
\* is_grand_total and is_unmapped.
FlaggedNodes(v) ==
    LET leaf == CHOOSE s \in SectionPool(v) : Kind(s) = "leaf" /\ s.items_key
    IN { [ComponentsNode(<<"Both">>, << leaf.title >>) EXCEPT !.is_grand_total = TRUE],
         [ComponentsNode(<<"Held">>, << leaf.title >>) EXCEPT !.is_unmapped = TRUE],
         [GrandNode(<<"Parked">>) EXCEPT !.is_unmapped = TRUE],
         [leaf EXCEPT !.title = <<"Later">>, !.is_unmapped = TRUE],
         [ComponentsNode(<<"Every">>, << leaf.title >>) EXCEPT !.is_grand_total = TRUE,
                                                             !.is_unmapped = TRUE] }

\* A generator whose configuration may hold nodes with several flags.
ReportFlagsInit ==
    /\ MapIdle
    /\ MainIdle
    /\ WebIdle
    /\ DisplayIdle
    /\ PrepareIdle
    /\ variant \in Variants
    /\ sections \in SeqsUpTo(SectionPool(variant) \cup FlaggedNodes(variant), MaxSections)
    /\ \E d \in ReportData(variant) :
          /\ df = d[1]
          /\ budget_month = d[2]
          /\ prior_month = d[3]
          /\ kusd_columns = d[4]
    /\ missing_columns = {}
    /\ section_idx = 0
    /\ report_data = << >>
    /\ item_rows = << >>
    /\ section_totals = << >>
    /\ grand_total = GrandZero(variant)
    /\ report_pc = "loop"


\* The GVL generator over configurations of up to MaxGvlSections nodes.
MaxGvlSections == 4

GvlInit ==
    /\ MapIdle
    /\ MainIdle
    /\ WebIdle
    /\ DisplayIdle
    /\ PrepareIdle
    /\ variant = "gvl"
    /\ sections \in SeqsUpTo(GvlSections, MaxGvlSections)
    /\ \E d \in ReportData("gvl") :
          /\ df = d[1]
          /\ budget_month = d[2]
          /\ prior_month = d[3]
          /\ kusd_columns = d[4]
    /\ missing_columns = {}
    /\ section_idx = 0
    /\ report_data = << >>
    /\ item_rows = << >>
    /\ section_totals = << >>
    /\ grand_total = GrandZero("gvl")
    /\ report_pc = "loop"

GvlNext ==
    \/ GvlGrandTotal
    \/ GvlTotal
    \/ GvlLeaf
    \/ SkipUnmapped
    \/ ReturnFrame

ReportNext ==
    \/ MgmtGrandTotal
    \/ MgmtTotal
    \/ MgmtLeaf
    \/ GvlGrandTotal
    \/ GvlTotal
    \/ GvlLeaf
    \/ UsaGrandTotal
    \/ UsaTotal
    \/ UsaLeaf
    \/ SkipUnmapped
    \/ ReturnFrame

-----------------------------------------------------------------------------
(* full_report.main                                                         *)

\* The three reports, in the order main generates them.
Reports == << "receivables", "gvl", "usa_spa" >>

\* The local names main binds for a report.
GenOf(r) == <<r, "gen">>

DfOf(r) == <<r, "df">>

\* The frame of report r has its column actual renamed to sales.
RenamedOf(r) == <<r, "renamed">>

\* The statement after the try block of report number n.
AfterBlock(n) == IF n < Len(Reports) THEN "construct" ELSE "combine"

NextReport(n) == IF n < Len(Reports) THEN n + 1 ELSE n

\* Data preparation: the sources are ready, or the local mapped file is
\* missing (main returns), or the SharePoint preparation raises (re-raised,
\* the run ends with a fatal error).
Prepare ==
    /\ main_pc = "prepare"
    /\ \E outcome \in {"ready", "missing", "raised"} :
          /\ main_pc' = IF outcome = "ready" THEN "construct" ELSE "done"
          /\ main_exit' = IF outcome = "ready" THEN main_exit
                          ELSE IF outcome = "missing" THEN "returned" ELSE "fatal"
    /\ UNCHANGED <<main_report, main_locals, main_errors, dfs_to_combine, exported>>
    /\ UNCHANGED otherThanMain

\* <r>_gen = <Generator>(config, sales, budget, prior): binds the generator,
\* or raises into the except block of the report.
Construct ==
    /\ main_pc = "construct"
    /\ \E raised \in BOOLEAN :
          IF raised
          THEN /\ main_errors' = main_errors \cup {Reports[main_report]}
               /\ main_pc' = AfterBlock(main_report)
               /\ main_report' = NextReport(main_report)
               /\ UNCHANGED main_locals
          ELSE /\ main_locals' = main_locals \cup {GenOf(Reports[main_report])}
               /\ main_pc' = "calculate"
               /\ UNCHANGED <<main_errors, main_report>>
    /\ UNCHANGED <<dfs_to_combine, exported, main_exit>>
    /\ UNCHANGED otherThanMain

\* <r>_df = <r>_gen.calculate_report(): binds the frame of lines, which is
\* never empty, or raises into the except block.
Calculate ==
    /\ main_pc = "calculate"
    /\ \E raised \in BOOLEAN :
          IF raised
          THEN /\ main_errors' = main_errors \cup {Reports[main_report]}
               /\ main_pc' = AfterBlock(main_report)
               /\ main_report' = NextReport(main_report)
               /\ UNCHANGED main_locals
          ELSE /\ main_locals' = main_locals \cup {DfOf(Reports[main_report])}
               /\ main_pc' = "render"
               /\ UNCHANGED <<main_errors, main_report>>
    /\ UNCHANGED <<dfs_to_combine, exported, main_exit>>
    /\ UNCHANGED otherThanMain

\* <r>_gen.render_report(<r>_df): ends the try block, or raises into the
\* except block with the frame already bound.  The USA Spa block then renames
\* the column actual of its frame to sales.
Render ==
    /\ main_pc = "render"
    /\ \E raised \in BOOLEAN :
          IF raised
          THEN /\ main_errors' = main_errors \cup {Reports[main_report]}
               /\ UNCHANGED main_locals
          ELSE /\ main_locals' =
                     IF Reports[main_report] = "usa_spa"
                     THEN main_locals \cup {RenamedOf("usa_spa")}
                     ELSE main_locals
               /\ UNCHANGED main_errors
    /\ main_pc' = AfterBlock(main_report)
    /\ main_report' = NextReport(main_report)
    /\ UNCHANGED <<dfs_to_combine, exported, main_exit>>
    /\ UNCHANGED otherThanMain

\* dfs_to_combine: the reports whose frame is bound, in order.
RECURSIVE BoundFrames(_)
BoundFrames(n) ==
    IF n = 0 THEN << >>
    ELSE IF DfOf(Reports[n]) \in main_locals
    THEN Append(BoundFrames(n - 1), Reports[n])
    ELSE BoundFrames(n - 1)

\* The frames are collected; without any, sys.exit(1).
CombineFrames ==
    /\ main_pc = "combine"
    /\ dfs_to_combine' = BoundFrames(Len(Reports))
    /\ IF dfs_to_combine' = << >>
       THEN main_pc' = "done" /\ main_exit' = "exit_no_data"
       ELSE main_pc' = "export" /\ UNCHANGED main_exit
    /\ UNCHANGED <<main_report, main_locals, main_errors, exported>>
    /\ UNCHANGED otherThanMain

\* receivables_gen.export_report(combined_df, ...): the name receivables_gen
\* is unbound when its constructor raised; the error reaches the handler of
\* __main__, which logs a fatal error and exits with 1.
Export ==
    /\ main_pc = "export"
    /\ IF GenOf("receivables") \in main_locals
       THEN exported' = dfs_to_combine /\ main_exit' = "exported"
       ELSE main_exit' = "fatal" /\ UNCHANGED exported
    /\ main_pc' = "done"
    /\ UNCHANGED <<main_report, main_locals, main_errors, dfs_to_combine>>
    /\ UNCHANGED otherThanMain

MainInit ==
    /\ MapIdle
    /\ ReportIdle
    /\ WebIdle
    /\ DisplayIdle
    /\ PrepareIdle
    /\ main_pc = "prepare"
    /\ main_report = 1
    /\ main_locals = {}
    /\ main_errors = {}
    /\ dfs_to_combine = << >>
    /\ exported = << >>
    /\ main_exit = "none"

MainNext ==
    \/ Prepare
    \/ Construct
    \/ Calculate
    \/ Render
    \/ CombineFrames
    \/ Export

-----------------------------------------------------------------------------
(* fastapi_web_app.main: POST /run-report and the background execute_report *)
(*                                                                          *)
(* A run is named by its number, which is also the timestamp its script     *)
(* prints; 0 is the empty URL and the last_run None.  report_status.output  *)
(* is the sequence of the pieces of text appended to it.                    *)

MaxTriggers == 3

UrlKeys == {"csv_url", "txt_url", "html_url", "xlsx_url", "pdf_url", "zip_url"}

\* The formats full_report exports: CSV, TXT, HTML, PDF.
ExportedFormats == {"csv_url", "txt_url", "html_url", "pdf_url"}

\* The module-level report_status.
InitialStatus ==
    [running |-> FALSE, output |-> << >>, csv_url |-> 0, txt_url |-> 0, html_url |-> 0,
     xlsx_url |-> 0, pdf_url |-> 0, zip_url |-> 0, last_run |-> 0]

\* report_status[k] = "" for the six URLs and the output.
Cleared(status) ==
    [status EXCEPT !.output = << >>, !.csv_url = 0, !.txt_url = 0, !.html_url = 0,
                   !.xlsx_url = 0, !.pdf_url = 0, !.zip_url = 0]

\* How the script of a run ends: with a fatal error (return code 1), by
\* returning before any report (return code 0, no timestamp printed), with a
\* timestamp but no combined file, or with its combined files written.
ScriptResults == {"exit1", "no_timestamp", "no_files", "files"}

\* What the script of run i prints.
ScriptOutput(i, result) ==
    IF result \in {"no_files", "files"} THEN <<"Timestamp", i>> ELSE <<"log", i>>

\* re.search(r'Timestamp: (\d{8}_\d{6})', output): the first timestamp in the
\* text, 0 if there is none.
RECURSIVE FirstTimestamp(_)
FirstTimestamp(output) ==
    IF output = << >> THEN 0
    ELSE IF Head(output)[1] = "Timestamp" THEN Head(output)[2]
    ELSE FirstTimestamp(Tail(output))

\* POST /run-report: refused with 400 while report_status["running"], else the
\* task is added and the request is answered; the task starts later.
RunReport ==
    /\ Len(responses) < MaxTriggers
    /\ IF report_status.running
       THEN /\ responses' = Append(responses, 400)
            /\ UNCHANGED background_tasks
       ELSE /\ background_tasks' = Append(background_tasks, [pc |-> "scheduled", result |-> "none"])
            /\ responses' = Append(responses, 200)
    /\ UNCHANGED <<report_status, output_dir>>
    /\ UNCHANGED otherThanWeb

\* execute_report, line 130: report_status["running"] = True
BeginRun ==
    /\ \E i \in DOMAIN background_tasks :
          /\ background_tasks[i].pc = "scheduled"
          /\ background_tasks' = [background_tasks EXCEPT ![i].pc = "begun"]
    /\ report_status' = [report_status EXCEPT !.running = TRUE]
    /\ UNCHANGED <<responses, output_dir>>
    /\ UNCHANGED otherThanWeb

\* execute_report, lines 131-137: the output and the URLs are emptied.
ClearStatus ==
    /\ \E i \in DOMAIN background_tasks :
          /\ background_tasks[i].pc = "begun"
          /\ background_tasks' = [background_tasks EXCEPT ![i].pc = "cleared"]
    /\ report_status' = Cleared(report_status)
    /\ UNCHANGED <<responses, output_dir>>
    /\ UNCHANGED otherThanWeb

\* The script runs and its output is appended to report_status["output"]; or
\* Popen raises and the except block replaces the output.
RunScript ==
    /\ \E i \in DOMAIN background_tasks :
          /\ background_tasks[i].pc = "cleared"
          /\ \/ \E result \in ScriptResults :
                   /\ background_tasks' =
                         [background_tasks EXCEPT ![i] = [pc |-> "exited", result |-> result]]
                   /\ report_status' =
                         [report_status EXCEPT !.output = Append(@, ScriptOutput(i, result))]
                   /\ output_dir' = IF result = "files" THEN output_dir \cup {i} ELSE output_dir
             \/ /\ background_tasks' =
                      [background_tasks EXCEPT ![i] = [pc |-> "finishing", result |-> "raised"]]
                /\ report_status' = [report_status EXCEPT !.output = << <<"Error", i>> >>]
                /\ UNCHANGED output_dir
    /\ UNCHANGED responses
    /\ UNCHANGED otherThanWeb

\* The URLs of the files of timestamp ts, copied to static.
WithUrls(status, ts, keys) ==
    [k \in DOMAIN status |-> IF k \in keys THEN ts ELSE status[k]]

\* execute_report, lines 161-214: the return code, the timestamp found in the
\* output and the files that carry it decide what is published; zipping or
\* copying may raise, which replaces the output.
Publish ==
    /\ \E i \in DOMAIN background_tasks :
          /\ background_tasks[i].pc = "exited"
          /\ background_tasks' = [background_tasks EXCEPT ![i].pc = "finishing"]
          /\ LET ts == FirstTimestamp(report_status.output)
                 dated == [report_status EXCEPT !.last_run = ts]
             IN IF background_tasks[i].result = "exit1"
                THEN report_status' = [report_status EXCEPT !.output = Append(@, <<"failed", i>>)]
                ELSE IF ts = 0
                THEN report_status' = [report_status EXCEPT !.output = Append(@, <<"no timestamp", i>>)]
                ELSE IF ts \notin output_dir
                THEN report_status' = [dated EXCEPT !.output = Append(@, <<"no files", i>>)]
                ELSE \E fault \in {"none", "zip", "copy"} :
                        report_status' =
                           IF fault = "zip"
                           THEN [dated EXCEPT !.output = << <<"Error", i>> >>]
                           ELSE IF fault = "copy"
                           THEN [WithUrls(dated, ts, {"zip_url"}) EXCEPT
                                    !.output = << <<"Error", i>> >>]
                           ELSE WithUrls(dated, ts, ExportedFormats \cup {"zip_url"})
    /\ UNCHANGED <<responses, output_dir>>
    /\ UNCHANGED otherThanWeb

\* execute_report, line 216: report_status["running"] = False
FinishRun ==
    /\ \E i \in DOMAIN background_tasks :
          /\ background_tasks[i].pc = "finishing"
          /\ background_tasks' = [background_tasks EXCEPT ![i].pc = "finished"]
    /\ report_status' = [report_status EXCEPT !.running = FALSE]
    /\ UNCHANGED <<responses, output_dir>>
    /\ UNCHANGED otherThanWeb

WebInit ==
    /\ MapIdle
    /\ ReportIdle
    /\ MainIdle
    /\ DisplayIdle
    /\ PrepareIdle
    /\ report_status = InitialStatus
    /\ background_tasks = << >>
    /\ responses = << >>
    /\ output_dir = {}

\* The steps of the background tasks.
TaskStep == BeginRun \/ ClearStatus \/ RunScript \/ Publish \/ FinishRun

WebNext ==
    \/ RunReport
    \/ BeginRun
    \/ ClearStatus
    \/ RunScript
    \/ Publish
    \/ FinishRun

-----------------------------------------------------------------------------
(* render_report and export_report: how a line of the table is displayed   *)
(*                                                                          *)
(* A displayed cell is the placeholder '-', the digits of an integer, or a  *)
(* percentage with one decimal, held as its number of tenths of a percent.  *)

\* The rounding that sends a tie away from zero.
RoundHalfAway(n, d) ==
    IF n >= 0 THEN (2 * n + d) \div (2 * d) ELSE -((2 * (-n) + d) \div (2 * d))

\* round(n / d) of Python 3, d > 0: the nearest integer, a tie going to the
\* even one.
Round(n, d) ==
    LET q == n \div d
        r == n % d
    IN IF 2 * r < d THEN q
       ELSE IF 2 * r > d THEN q + 1
       ELSE IF q % 2 = 0 THEN q ELSE q + 1

Dash == [text |-> "-", n |-> 0]

Digits(n) == [text |-> "digits", n |-> n]

Percent(tenths) == [text |-> "%", n |-> tenths]

\* f"{int(round(x))}" if abs(x) >= 0.5 else ("-" if x == 0 else "0"),
\* x in tenths.
NumberCell(x) ==
    IF Abs(x) >= 5 THEN Digits(Round(x, 10))
    ELSE IF x = 0 THEN Dash
    ELSE Digits(0)

\* f"{int(round(x/1000))}" if abs(x) >= 500 else ("-" if x == 0 else "0")
ThousandthCell(x) ==
    IF Abs(x) >= 5000 THEN Digits(Round(x, 10000))
    ELSE IF x = 0 THEN Dash
    ELSE Digits(0)

\* The worksheet cell: int(round(x)) if abs(x) >= 0.5 else None, then
\* value if value else "-".
XlsxCell(x) ==
    LET value == IF Abs(x) >= 5 THEN Round(x, 10) ELSE 0
    IN IF value # 0 THEN Digits(value) ELSE Dash

\* f"{p:.1f}%" of the fraction p = n / d, d # 0.
OneDecimal(n, d) ==
    IF d > 0 THEN Percent(Round(10 * n, d)) ELSE Percent(Round(-(10 * n), -d))

\* The cell of a division by zero that is not guarded.
ZeroDivisionError == [text |-> "ZeroDivisionError", n |-> 0]

\* pct = (sales / budget * 100) if budget and budget != 0 else 0
\* pct_str = f"{pct:.1f}%" if budget and budget != 0 else "-"
RawPctCell(sales, budget) ==
    IF budget # 0 THEN OneDecimal(sales * 100, budget) ELSE Dash

\* f"{pct_budget:.1f}%" if budget != 0 else "-", pct the stored fraction.
StoredPctCell(pct, ref) ==
    IF ref # 0 THEN OneDecimal(pct[1], pct[2]) ELSE Dash


\* The text of a NaN percentage: f"{float('nan'):.1f}%".
NanPercent == [text |-> "nan%", n |-> 0]

\* The cell of the budget or prior of a line.  A NaN is neither >= 0.5 in
\* magnitude nor equal to 0: it is shown as '0'.
AmountCell(row, m) ==
    IF m \in row.nan THEN Digits(0) ELSE NumberCell(row[m])

\* The '% vs Bud' cell of a line.  A NaN budget is truthy and differs from 0:
\* the division is made and gives NaN.
PctCell(row) ==
    IF "budget" \in row.nan THEN NanPercent ELSE RawPctCell(row.sales, row.budget)

\* The cells of a line in the console, text, HTML and PDF output of the
\* management and GVL generators, and in the CSV output of the GVL one.
MgmtCells(row) ==
    [sales |-> NumberCell(row.sales), budget |-> AmountCell(row, "budget"),
     prior |-> AmountCell(row, "prior"), pct |-> PctCell(row)]

\* The CSV output of the management generator: no row has a
\* budget_needs_division cell, so the budget is shown in thousands.
MgmtCsvCells(row) ==
    [MgmtCells(row) EXCEPT
        !.budget = IF "budget" \in row.nan THEN Digits(0) ELSE ThousandthCell(row.budget)]

\* The worksheet of the management generator.
MgmtXlsxCells(row) ==
    [sales |-> XlsxCell(row.sales),
     budget |-> IF "budget" \in row.nan THEN Dash ELSE XlsxCell(row.budget),
     prior |-> IF "prior" \in row.nan THEN Dash ELSE XlsxCell(row.prior),
     pct |-> PctCell(row)]

\* The cells of a line in every output of the USA Spa generator.
UsaCells(row) ==
    [sales |-> NumberCell(row.sales), budget |-> ThousandthCell(row.budget),
     diff_budget |-> NumberCell(row.diff_budget),
     pct |-> StoredPctCell(row.pct_budget, row.budget),
     prior |-> NumberCell(row.prior),
     pct_prior |-> StoredPctCell(row.pct_prior, row.prior)]

\* ManagementReportGenerator.export_report: text, HTML, CSV, XLSX, PDF.
MgmtExportCells(row) ==
    [f \in {"txt", "html", "csv", "xlsx", "pdf"} |->
        IF f = "csv" THEN MgmtCsvCells(row)
        ELSE IF f = "xlsx" THEN MgmtXlsxCells(row)
        ELSE MgmtCells(row)]

Display(by, cells) ==
    /\ shown_by = "none"
    /\ shown_by' = by
    /\ shown_cells' = cells
    /\ UNCHANGED shown_row
    /\ UNCHANGED otherThanDisplay

\* render_report of the three generators, as main calls them on their tables.
MgmtRenderReport ==
    /\ shown_row.origin = "management"
    /\ Display("ManagementReportGenerator.render_report", [console |-> MgmtCells(shown_row)])

GvlRenderReport ==
    /\ shown_row.origin = "gvl"
    /\ Display("GVLReportGenerator.render_report", [console |-> MgmtCells(shown_row)])

UsaRenderReport ==
    /\ shown_row.origin = "usa_spa"
    /\ Display("USASpaReportGenerator.render_report", [console |-> UsaCells(shown_row)])

\* export_report of the three generators on their own tables (the __main__
\* of each module).
MgmtExportReport ==
    /\ shown_row.origin = "management"
    /\ Display("ManagementReportGenerator.export_report", MgmtExportCells(shown_row))

GvlExportReport ==
    /\ shown_row.origin = "gvl"
    /\ Display("GVLReportGenerator.export_report",
               [f \in {"txt", "html", "csv", "pdf"} |-> MgmtCells(shown_row)])

UsaExportReport ==
    /\ shown_row.origin = "usa_spa"
    /\ Display("USASpaReportGenerator.export_report",
               [f \in {"txt", "html", "csv", "pdf"} |-> UsaCells(shown_row)])

\* full_report.main: receivables_gen.export_report(combined_df, ...), the
\* lines of the three tables in one frame, the USA Spa column actual renamed
\* to sales.
ExportCombined ==
    /\ shown_row.origin \in Variants
    /\ Display("full_report.main", MgmtExportCells(shown_row))

\* Amounts in tenths: 0, 0.3, 0.5, 1.5, 2.5, 2.6, 100.0, 500.0, 2500.0 and
\* negative ones.
AmountPool == {-25, -3, 0, 3, 5, 15, 25, 26, 1000, 5000, 25000}

\* A line of the table of a variant: the USA Spa table holds the differences
\* and the percentages calculate_report stored.
TableRow(v, sales, budget, prior) ==
    LET m == Measures(sales, budget, prior)
    IN [origin |-> v, sales |-> sales, budget |-> budget, prior |-> prior,
        diff_budget |-> m.diff_budget, pct_budget |-> m.pct_budget,
        diff_prior |-> m.diff_prior, pct_prior |-> m.pct_prior, nan |-> {}]

\* A line of the GVL table whose budget or prior is the Value_kEUR of a
\* reference row with an empty cell (_get_budget_value and _get_prior_value
\* return .iloc[0] as read): the amount is NaN.
GvlNanRows ==
    { [TableRow("gvl", s, 0, 0) EXCEPT !.nan = cols] :
        s \in AmountPool, cols \in {{"budget"}, {"prior"}, {"budget", "prior"}} }

DisplayInit ==
    /\ MapIdle
    /\ ReportIdle
    /\ MainIdle
    /\ WebIdle
    /\ shown_row \in { TableRow(v, s, b, p) : v \in Variants, s \in AmountPool,
                                             b \in AmountPool, p \in AmountPool }
                     \cup GvlNanRows
    /\ shown_by = "none"
    /\ shown_cells = << >>
    /\ PrepareIdle

DisplayNext ==
    \/ MgmtRenderReport
    \/ GvlRenderReport
    \/ UsaRenderReport
    \/ MgmtExportReport
    \/ GvlExportReport
    \/ UsaExportReport
    \/ ExportCombined

-----------------------------------------------------------------------------

(* __init__ and _prepare_data of the three generators                      *)
(*                                                                         *)
(* A date cell of a csv file is a sequence of tokens, "01/03/2025" being   *)
(* <<"01", "/", "03", "/", "2025">>; a parsed date (pd.Timestamp) is the   *)
(* pair <<year, month>>.  A sales amount is a whole number of EUR or USD;  *)
(* a kEUR / kVAL cell of the prepared sales frame is a whole number of     *)
(* hundred-thousandths of the k-unit, so that a division by 1000 and a     *)
(* multiplication by a rate of two decimals are exact.                     *)

otherThanPrepare == <<mapVars, reportVars, mainVars, webVars, displayVars>>

MaxSalesRows == 2
MaxRefRows == 2

\* f"{month:02d}"
Pad2(m) == IF m < 10 THEN "0" \o ToString(m) ELSE ToString(m)

YearPool == 2024..2026

\* The text of a date in a file written as DD/MM/YYYY or as YYYY-MM-DD.
DateText(year, month, format) ==
    IF format = "DMY" THEN <<"01", "/", Pad2(month), "/", ToString(year)>>
    ELSE <<ToString(year), "-", Pad2(month), "-", "01">>

ValueError == <<"ValueError">>

\* pd.to_datetime(cell, format='%d/%m/%Y')
ToDatetime(cell) ==
    IF Len(cell) = 5 /\ cell[2] = "/" /\ cell[4] = "/"
       /\ (\E m \in 1..12 : Pad2(m) = cell[3])
       /\ (\E y \in YearPool : ToString(y) = cell[5])
    THEN <<CHOOSE y \in YearPool : ToString(y) = cell[5],
           CHOOSE m \in 1..12 : Pad2(m) = cell[3]>>
    ELSE ValueError

\* pd.to_datetime(frame['Date'], format='%d/%m/%Y') raises on a cell it cannot parse.
Parses(frame) == \A i \in DOMAIN frame : ToDatetime(frame[i].Date) # ValueError

\* frame['Date'] = pd.to_datetime(frame['Date'], format='%d/%m/%Y')
ParseDates(frame) == [i \in DOMAIN frame |-> [frame[i] EXCEPT !.Date = ToDatetime(@)]]

\* frame[frame['Date'].dt.month == month]
OfMonth(frame, month) ==
    Pick(frame, {i \in DOMAIN frame : frame[i].Date[2] = month}, 1)

\* frame[(frame['Date'].dt.year == year) & (frame['Date'].dt.month == month)]
OfYearMonth(frame, year, month) ==
    Pick(frame, {i \in DOMAIN frame : frame[i].Date = <<year, month>>}, 1)

\* frame[frame['Date'].astype(str).str.startswith(f"{year}-{month:02d}")]
DateStartsWith(frame, year, month) ==
    Pick(frame,
         {i \in DOMAIN frame : StartsWith(frame[i].Date, <<ToString(year), "-", Pad2(month)>>)},
         1)

\* self.df[self.df['Document Type'] == 'AR']
OnlyAR(frame) == Pick(frame, {i \in DOMAIN frame : frame[i].Document_Type = "AR"}, 1)

\* self.df[(self.df['Market_Group'] == 'USA') & (self.df['Channel_Level'] == 'Spa')]
OnlyUsaSpa(frame) ==
    Pick(frame,
         {i \in DOMAIN frame : frame[i].Market_Group = "USA" /\ frame[i].Channel_Level = "Spa"},
         1)

\* self.df['kEUR'] = self.df[value_col].fillna(0) / 1000
WithKEur(frame) ==
    [i \in DOMAIN frame |->
        [Region |-> frame[i].Region, kEUR |-> frame[i].Total_Value_EUR * 100]]

\* The kVAL column of the USA Spa generator and the unit it stands for.
DetectedUnit(columns) ==
    IF "Value_kUSD" \in columns \/ "Value_in_USD_converted" \in columns THEN "kUSD" ELSE "kEUR"

KVal(rec, columns) ==
    IF "Value_kUSD" \in columns THEN rec.Value_kUSD * 100000
    ELSE IF "Value_in_USD_converted" \in columns THEN rec.Value_in_USD_converted * 100
    ELSE rec.Total_Value_EUR * 100

WithKVal(frame, columns) ==
    [i \in DOMAIN frame |-> [Region |-> frame[i].Region, kVAL |-> KVal(frame[i], columns)]]

\* float(os.getenv('EUR_TO_USD', '1.07')), in hundredths; 1.07 when float() raises.
EurToUsd(env) ==
    CASE env = "unset" -> 107
      [] env = "1.25" -> 125
      [] OTHER -> 107

\* self.df['kVAL'] = self.df['kVAL'] * eur_to_usd
Converted(frame, rate) ==
    [i \in DOMAIN frame |-> [frame[i] EXCEPT !.kVAL = (@ * rate) \div 100]]

\* sum_numeric(frame, col).sum(): the sum over the regions of the regional sums.
UsdTotal(frame) == SumCol(frame, DOMAIN frame, "Value_kUSD")

\* usd_budget_total != 0.0 or usd_prior_total != 0.0
ForcedToUsd(budget, prior) == UsdTotal(budget) # 0 \/ UsdTotal(prior) # 0

\* The kVAL column after the unit is settled.
UsaKVal(frame, columns, forced, rate) ==
    IF forced /\ DetectedUnit(columns) = "kEUR"
    THEN Converted(WithKVal(frame, columns), rate)
    ELSE WithKVal(frame, columns)

\* self.prior_year = 2024
MgmtPriorYear(clock) == 2024

\* ManagementReportGenerator._prepare_data
MgmtPrepareData ==
    /\ loaded # << >>
    /\ prepared = << >>
    /\ LET month == loaded.now[2]
           budget == ParseDates(loaded.budget_df)
       IN  prepared' =
             [by |-> "management", raised |-> FALSE,
              current_month |-> month, current_year |-> 2025,
              prior_year |-> MgmtPriorYear(loaded.now),
              df |-> WithKEur(OnlyAR(loaded.df)),
              budget_month |-> OfMonth(budget, month),
              prior_month |-> DateStartsWith(loaded.prior_df, MgmtPriorYear(loaded.now), month)]
    /\ UNCHANGED <<loaded, otherThanPrepare>>

\* GVLReportGenerator._prepare_data
GvlPrepareData ==
    /\ loaded # << >>
    /\ prepared = << >>
    /\ LET month == loaded.now[2]
           year == loaded.now[1]
           budget == ParseDates(loaded.budget_df)
       IN  IF ~Parses(loaded.prior_df)
           THEN prepared' = [by |-> "gvl", raised |-> TRUE]
           ELSE prepared' =
                  [by |-> "gvl", raised |-> FALSE,
                   current_month |-> month, current_year |-> year, prior_year |-> year - 1,
                   df |-> WithKEur(OnlyAR(loaded.df)),
                   budget_month |-> OfMonth(budget, month),
                   prior_month |-> OfYearMonth(ParseDates(loaded.prior_df), year - 1, month)]
    /\ UNCHANGED <<loaded, otherThanPrepare>>

\* USASpaReportGenerator._prepare_data
UsaPrepareData ==
    /\ loaded # << >>
    /\ prepared = << >>
    /\ LET month == loaded.now[2]
           year == loaded.now[1]
           budget == OfMonth(ParseDates(loaded.budget_df), month)
           prior == IF Parses(loaded.prior_df)
                    THEN OfYearMonth(ParseDates(loaded.prior_df), year - 1, month)
                    ELSE DateStartsWith(loaded.prior_df, year - 1, month)
           forced == ForcedToUsd(budget, prior)
           sales == OnlyUsaSpa(OnlyAR(loaded.df))
       IN  prepared' =
             [by |-> "usa_spa", raised |-> FALSE,
              current_month |-> month, current_year |-> year, prior_year |-> year - 1,
              original_unit |-> DetectedUnit(loaded.columns),
              unit |-> IF forced THEN "kUSD" ELSE DetectedUnit(loaded.columns),
              df |-> UsaKVal(sales, loaded.columns, forced, EurToUsd(loaded.EUR_TO_USD)),
              budget_month |-> budget,
              prior_month |-> prior]
    /\ UNCHANGED <<loaded, otherThanPrepare>>

RawSale(doc, market, channel, region, eur, usd, kusd) ==
    [Document_Type |-> doc, Market_Group |-> market, Channel_Level |-> channel,
     Region |-> region, Total_Value_EUR |-> eur, Value_in_USD_converted |-> usd,
     Value_kUSD |-> kusd]

RawSalesPool ==
    { RawSale("AR", "USA", "Spa", "East", 2000, 2200, 2),
      RawSale("AP", "USA", "Spa", "East", 300, 330, 0),
      RawSale("AR", "EU", "Spa", "West", 700, 760, 1) }

RefRow(year, month, format, region, keur, kusd) ==
    [Date |-> DateText(year, month, format), Region |-> region,
     Value_kEUR |-> keur, Value_kUSD |-> kusd]

\* Budget files are written as DD/MM/YYYY.
BudgetRowPool ==
    { RefRow(2025, 3, "DMY", "East", 30, 0),
      RefRow(2026, 3, "DMY", "West", 20, 25),
      RefRow(2025, 4, "DMY", "West", 10, 15) }

PriorRowPool(format) ==
    { RefRow(2025, 3, format, "East", 35, -50),
      RefRow(2025, 3, format, "West", 25, 50),
      RefRow(2024, 3, format, "East", 15, 0),
      RefRow(2024, 4, format, "West", 5, 20) }

ClockPool == { <<2025, 3>>, <<2026, 3>> }

PrepareInit ==
    /\ MapIdle
    /\ ReportIdle
    /\ MainIdle
    /\ WebIdle
    /\ DisplayIdle
    /\ \E format \in {"DMY", "ISO"} :
          loaded \in [now : ClockPool,
                      EUR_TO_USD : {"unset", "1.25", "one"},
                      columns : { {}, {"Value_in_USD_converted"},
                                  {"Value_kUSD", "Value_in_USD_converted"} },
                      df : SeqsUpTo(RawSalesPool, MaxSalesRows),
                      budget_df : SeqsUpTo(BudgetRowPool, MaxRefRows),
                      prior_df : SeqsUpTo(PriorRowPool(format), MaxRefRows)]
    /\ prepared = << >>

PrepareNext == MgmtPrepareData \/ GvlPrepareData \/ UsaPrepareData

-----------------------------------------------------------------------------

(* Specifications *)

vars == <<mapVars, reportVars, mainVars, webVars, displayVars, prepareVars>>

SpecMap == MapInit /\ [][MapNext]_vars

SpecMapColumns == MapColumnsInit /\ [][MapNext]_vars

SpecReport == ReportInit /\ [][ReportNext]_vars

\* calculate_report is one for loop run by one thread: a step that can be taken
\* is taken.
SpecReportLive == ReportInit /\ [][ReportNext]_vars /\ WF_vars(ReportNext)

SpecReportColumns == ReportColumnsInit /\ [][ReportNext]_vars

SpecReportFlags == ReportFlagsInit /\ [][ReportNext]_vars

SpecGvl == GvlInit /\ [][GvlNext]_vars

SpecMain == MainInit /\ [][MainNext]_vars

SpecDisplay == DisplayInit /\ [][DisplayNext]_vars

SpecPrepare == PrepareInit /\ [][PrepareNext]_vars

SpecWeb == WebInit /\ [][WebNext]_vars

\* A background task is run by a worker thread of the server, which goes on to
\* the end of execute_report, and the script it waits for ends: a step of a
\* task that can be taken is taken.  Requests are under no such obligation.
SpecWebLive == WebInit /\ [][WebNext]_vars /\ WF_vars(TaskStep)


-----------------------------------------------------------------------------
(* The entity resolver: what the claims speak of.                           *)
(* At map_pc = "mapped" the frame holds one row per input record, in input  *)
(* order, with its combined classification; the filters have not run yet.   *)

\* The rows of the mapping table, as passed in, whose key column holds name
\* once trimmed.
KeyRows(col, name) ==
    { i \in DOMAIN mapping_df : mapping_df[i][col] # NaN /\ Strip(mapping_df[i][col]) = name }

HasKey(col, name) == KeyRows(col, name) # {}

FirstKeyRow(col, name) == CHOOSE i \in KeyRows(col, name) : \A j \in KeyRows(col, name) : i <= j

RowClass(i) == [c \in ClassCols |-> StripCell(mapping_df[i][c])]

Resolved(r) == r.cls.Market_Group # NaN

TrimmedCust(r) == Strip(PyStr(r.Customer_Name))

TrimmedEmp(r) == Strip(PyStr(r.Sales_Employee_Name))

\* The primary lookup of a record: its path's index under its path's name, as is.
PrimaryHit(r) ==
    IF OnEmployeePath(r) THEN r.Sales_Employee_Name # NaN /\ HasKey("Sales_Employee", r.Sales_Employee_Name)
    ELSE r.Customer_Name # NaN /\ HasKey("Customer_Name", r.Customer_Name)

CustKeyFound(r) == TrimmedCust(r) # <<>> /\ HasKey("Customer_Name", TrimmedCust(r))

SamePathName(r1, r2) ==
    /\ r1.Company_Entity = r2.Company_Entity
    /\ IF OnEmployeePath(r1) THEN r1.Sales_Employee_Name = r2.Sales_Employee_Name
       ELSE r1.Customer_Name = r2.Customer_Name

OtherNameDiffers(r1, r2) ==
    IF OnEmployeePath(r1) THEN r1.Customer_Name # r2.Customer_Name
    ELSE r1.Sales_Employee_Name # r2.Sales_Employee_Name

\* C1 as stated: two records with the same Company Entity and the same
\* path-relevant name receive the same classification, whatever the other
\* name field holds.
C1_SameNameSameClass ==
    map_pc = "mapped" =>
        \A i, j \in DOMAIN sales_df :
            SamePathName(sales_df[i], sales_df[j]) => sales_df[i].cls = sales_df[j].cls

\* C1 amended: a GmbH/AG record is classified from the employee rows keyed by
\* its Sales Employee Name only, any other record whose trimmed Customer Name
\* is a key of the customer index from the customer rows of that key only; two
\* such records with the same Company Entity and the same path-relevant name
\* receive the same classification whatever the other name field holds.  (A
\* customer-path record whose customer name is no key is left to the
\* exact-match pass, which reads its employee name.)
C1_PathDeterminesClass ==
    map_pc = "mapped" =>
        /\ \A i \in DOMAIN sales_df :
              LET r == sales_df[i]
              IN  /\ OnEmployeePath(r) =>
                        IF PrimaryHit(r)
                        THEN \E k \in KeyRows("Sales_Employee", r.Sales_Employee_Name) : r.cls = RowClass(k)
                        ELSE r.cls = NoClass
                  /\ (~ OnEmployeePath(r) /\ CustKeyFound(r)) =>
                        \E k \in KeyRows("Customer_Name", TrimmedCust(r)) : r.cls = RowClass(k)
        /\ \A i, j \in DOMAIN sales_df :
              (/\ SamePathName(sales_df[i], sales_df[j])
               /\ (OnEmployeePath(sales_df[i]) \/ CustKeyFound(sales_df[i])))
              => sales_df[i].cls = sales_df[j].cls

\* C1 witness: two customer-path records of one entity and one customer name,
\* found in the customer index, with different employee names of which one is
\* a key of the employee index; both are classified.
C1_Witness ==
    /\ map_pc = "mapped"
    /\ \E i, j \in DOMAIN sales_df :
          /\ ~ OnEmployeePath(sales_df[i])
          /\ SamePathName(sales_df[i], sales_df[j])
          /\ OtherNameDiffers(sales_df[i], sales_df[j])
          /\ CustKeyFound(sales_df[i])
          /\ HasKey("Sales_Employee", TrimmedEmp(sales_df[i]))
          /\ Resolved(sales_df[i]) /\ Resolved(sales_df[j])

\* The row the claimed fallback of C2 finds: the customer name in the employee
\* index, else the employee name in the customer index (names trimmed).
ClaimedFallbackClass(r) ==
    IF TrimmedCust(r) # <<>> /\ HasKey("Sales_Employee", TrimmedCust(r))
        THEN RowClass(FirstKeyRow("Sales_Employee", TrimmedCust(r)))
    ELSE IF TrimmedEmp(r) # <<>> /\ HasKey("Customer_Name", TrimmedEmp(r))
        THEN RowClass(FirstKeyRow("Customer_Name", TrimmedEmp(r)))
    ELSE NoClass

\* C2 as stated: a record whose primary lookup misses, on either path, gets
\* the classification of the first match of its customer name in the employee
\* index or of its employee name in the customer index, and stays unresolved
\* if neither matches.
C2_CrossFallbackBothPaths ==
    map_pc = "mapped" =>
        \A i \in DOMAIN sales_df :
            ~ PrimaryHit(sales_df[i]) => sales_df[i].cls = ClaimedFallbackClass(sales_df[i])

\* The row the exact-match pass finds for a customer-path record: its trimmed
\* customer name in the customer index, else its trimmed employee name in the
\* employee index, else its trimmed customer name in the employee index.
ExactMatchClass(r) ==
    IF CustKeyFound(r)
        THEN RowClass(FirstKeyRow("Customer_Name", TrimmedCust(r)))
    ELSE IF TrimmedEmp(r) # <<>> /\ HasKey("Sales_Employee", TrimmedEmp(r))
        THEN RowClass(FirstKeyRow("Sales_Employee", TrimmedEmp(r)))
    ELSE IF TrimmedCust(r) # <<>> /\ HasKey("Sales_Employee", TrimmedCust(r))
        THEN RowClass(FirstKeyRow("Sales_Employee", TrimmedCust(r)))
    ELSE NoClass

\* C2 amended: only a record on the customer path gets a fallback pass when
\* its primary lookup misses: its trimmed customer name is tried in the
\* customer index, then its trimmed employee name in the employee index, then
\* its trimmed customer name in the employee index, by exact equality, and the
\* fields of the first match are copied; with no match it stays unresolved.  A
\* GmbH/AG record whose employee lookup misses stays unresolved.
C2_ExactMatchPass ==
    map_pc = "mapped" =>
        \A i \in DOMAIN sales_df :
            ~ PrimaryHit(sales_df[i]) =>
                sales_df[i].cls = IF OnEmployeePath(sales_df[i]) THEN NoClass
                                  ELSE ExactMatchClass(sales_df[i])

\* C2 witness: a customer-path record whose customer name misses as passed in
\* and is found in the customer index once trimmed, beside a GmbH/AG record
\* whose employee name misses while its customer name is an employee key.
C2_Witness ==
    /\ map_pc = "mapped"
    /\ \E i \in DOMAIN sales_df :
          /\ ~ OnEmployeePath(sales_df[i]) /\ ~ PrimaryHit(sales_df[i])
          /\ CustKeyFound(sales_df[i]) /\ Resolved(sales_df[i])
    /\ \E j \in DOMAIN sales_df :
          /\ OnEmployeePath(sales_df[j]) /\ ~ PrimaryHit(sales_df[j])
          /\ HasKey("Sales_Employee", TrimmedCust(sales_df[j]))
          /\ ~ Resolved(sales_df[j])

EntityType(r) == IF OnEmployeePath(r) THEN "employee" ELSE "customer"

TrimmedPathName(r) == IF OnEmployeePath(r) THEN TrimmedEmp(r) ELSE TrimmedCust(r)

RECURSIVE SumCounts(_, _)
SumCounts(ledger, keys) ==
    IF keys = {} THEN 0
    ELSE LET k == CHOOSE x \in keys : TRUE
         IN  ledger[k].count + SumCounts(ledger, keys \ {k})

CountedUnder(key) ==
    { i \in DOMAIN sales_df :
        /\ ~ Resolved(sales_df[i])
        /\ EntityType(sales_df[i]) = key.entity_type
        /\ TrimmedPathName(sales_df[i]) = key.entity_name }

ResolvingKey(r) ==
    IF OnEmployeePath(r)
        THEN IF PrimaryHit(r) THEN <<"Sales_Employee", r.Sales_Employee_Name>> ELSE <<>>
    ELSE IF CustKeyFound(r) THEN <<"Customer_Name", TrimmedCust(r)>>
    ELSE IF TrimmedEmp(r) # <<>> /\ HasKey("Sales_Employee", TrimmedEmp(r))
        THEN <<"Sales_Employee", TrimmedEmp(r)>>
    ELSE IF TrimmedCust(r) # <<>> /\ HasKey("Sales_Employee", TrimmedCust(r))
        THEN <<"Sales_Employee", TrimmedCust(r)>>
    ELSE <<>>

\* C4: when several rows of the mapping table have the key (trimmed) a record
\* is resolved through, the record gets the classification fields of the
\* first such row in table order.
C4_FirstRowOfKeyWins ==
    map_pc = "mapped" =>
        \A i \in DOMAIN sales_df :
            LET key == ResolvingKey(sales_df[i])
            IN  (key # <<>> /\ Cardinality(KeyRows(key[1], key[2])) > 1)
                => sales_df[i].cls = RowClass(FirstKeyRow(key[1], key[2]))

\* C4 witness: a record resolved through a key that two rows of the table
\* hold with different classifications.
C4_Witness ==
    /\ map_pc = "mapped"
    /\ \E i \in DOMAIN sales_df :
          LET key == ResolvingKey(sales_df[i])
          IN  /\ key # <<>>
              /\ \E a, b \in KeyRows(key[1], key[2]) : a < b /\ RowClass(a) # RowClass(b)
              /\ Resolved(sales_df[i])

-----------------------------------------------------------------------------
(* The report generators: what the claims speak of.                         *)

\* The loop of variant v has just processed a section of the given kind.
JustProcessed(v, kind) ==
    /\ report_pc = "loop"
    /\ variant = v
    /\ section_idx >= 1
    /\ Kind(sections[section_idx]) = kind

\* The section processed last and the line emitted last.
Processed == sections[section_idx]

LastLine == report_data[Len(report_data)]

\* The sum of a measure over the lines of a sequence.
RECURSIVE SumLines(_, _)
SumLines(lines, m) ==
    IF lines = << >> THEN 0 ELSE lines[1][m] + SumLines(Tail(lines), m)

MeasureNames == {"sales", "budget", "prior"}

\* The positions of the explicit items and of the fallback items of a section.
ExplicitItems(section) == { n \in DOMAIN section.items : ~section.items[n].is_fallback }

FallbackItems(section) == { n \in DOMAIN section.items : section.items[n].is_fallback }

\* The sum of a measure over all explicit items of a section.
RECURSIVE SumExplicit(_, _, _)
SumExplicit(section, idx, m) ==
    IF idx = {} THEN 0
    ELSE LET n == CHOOSE k \in idx : TRUE
         IN MgmtItemValues(section, section.items[n])[m] + SumExplicit(section, idx \ {n}, m)

\* Section total minus all explicit items, in one measure.
Residual(section, m) ==
    MgmtSectionTotals(section)[m] - SumExplicit(section, ExplicitItems(section), m)

\* The item lines of the processed section that carry the label of its item n.
LinesOf(n) ==
    { i \in DOMAIN item_rows : item_rows[i].label = Processed.items[n].label }

\* C5: in a leaf section of the management report the fallback line carries,
\* in sales, budget and prior, the section total minus the sum over all
\* explicit items, those declared after the fallback item included; and when
\* the fallback line is emitted the item lines add up to the section total.
C5_FallbackIsResidual ==
    JustProcessed("management", "leaf") =>
        \A n \in FallbackItems(Processed) : \A m \in MeasureNames :
            /\ \A i \in LinesOf(n) : item_rows[i][m] = Residual(Processed, m)
            /\ LinesOf(n) # {} =>
                  SumLines(item_rows, m) = MgmtSectionTotals(Processed)[m]

\* Total 300.0, explicit items 200.0 before and 80.0 after the fallback item:
\* the fallback line is emitted with 20.0.
C5_Witness ==
    /\ JustProcessed("management", "leaf")
    /\ MgmtSectionTotals(Processed).sales = 3000
    /\ \E n \in FallbackItems(Processed) :
          /\ \E k \in ExplicitItems(Processed) :
                k > n /\ MgmtItemValues(Processed, Processed.items[k]).sales = 800
          /\ \E i \in LinesOf(n) : item_rows[i].sales = 200

\* C6 as stated: the fallback line is left out exactly when each of its three
\* measures has a magnitude below 0.5.
C6_OmittedBelowHalf ==
    JustProcessed("management", "leaf") =>
        \A n \in FallbackItems(Processed) :
            LinesOf(n) = {} <=> \A m \in MeasureNames : Abs(Residual(Processed, m)) < 5

\* C6: the fallback line is left out exactly when each of its three measures
\* has a magnitude of at most 0.1; it is then removed, the section emits one
\* line an explicit item and no zero line; it is emitted, with its values, as
\* soon as one measure exceeds 0.1.
C6_OmittedUpToTenth ==
    JustProcessed("management", "leaf") =>
        \A n \in FallbackItems(Processed) :
            /\ LinesOf(n) = {} <=> \A m \in MeasureNames : Abs(Residual(Processed, m)) <= 1
            /\ LinesOf(n) = {} =>
                  Len(item_rows) = Cardinality(ExplicitItems(Processed))
            /\ Cardinality(LinesOf(n)) <= 1

\* A fallback line of 0.3 in sales and nothing in budget and prior is emitted.
C6_Witness ==
    /\ JustProcessed("management", "leaf")
    /\ \E n \in FallbackItems(Processed) : \E i \in LinesOf(n) :
          /\ item_rows[i].sales = 3
          /\ item_rows[i].budget = 0
          /\ item_rows[i].prior = 0

\* The leaf sections among the first n sections.
LeavesBefore(n) == { j \in 1..(n - 1) : Kind(sections[j]) = "leaf" }

RECURSIVE SumUsaLeaves(_, _)
SumUsaLeaves(idx, m) ==
    IF idx = {} THEN 0
    ELSE LET j == CHOOSE k \in idx : TRUE
         IN UsaSectionTotals(sections[j])[m] + SumUsaLeaves(idx \ {j}, m)

\* C7: in the USA Spa report the grand-total line carries, in actual, budget
\* and prior, the sum over the leaf sections processed before it, each one
\* once; the component-total sections add nothing.
C7_GrandTotalSumsLeaves ==
    JustProcessed("usa_spa", "grand_total") =>
        \A m \in {"actual", "budget", "prior"} :
            LastLine[m] = SumUsaLeaves(LeavesBefore(section_idx), m)

\* A grand total emitted after a leaf section and a component-total of it,
\* both with amounts.
C7_Witness ==
    /\ JustProcessed("usa_spa", "grand_total")
    /\ LastLine.actual # 0
    /\ \E j \in LeavesBefore(section_idx) : \E k \in (j + 1)..(section_idx - 1) :
          /\ Kind(sections[k]) = "total"
          /\ report_data[Len(report_data) - 1].label = sections[k].title
          /\ report_data[Len(report_data) - 1].actual # 0

\* The component-total sections among the first n sections whose title reads
\* 'Company <x> Sales'.
CompanyTotalsBefore(n) ==
    { j \in 1..(n - 1) : Kind(sections[j]) = "total" /\ IsCompanySalesTitle(sections[j].title) }

\* The total a component-total section at position j emits.
EmittedTotal(j) == SumRefs(ComponentRefs(sections[j]), StoredAfter(j - 1))

RECURSIVE SumEmittedTotals(_, _)
SumEmittedTotals(idx, m) ==
    IF idx = {} THEN 0
    ELSE LET j == CHOOSE k \in idx : TRUE
         IN EmittedTotal(j)[m] + SumEmittedTotals(idx \ {j}, m)

\* C8 as stated: in the management report the grand-total line carries the
\* accumulated grand total minus the totals of the component-total sections
\* processed before it whose title reads 'Company <x> Sales'.
C8_DeductsCompanyTotals ==
    JustProcessed("management", "grand_total") =>
        /\ LastLine.sales = grand_total.Sales
                - SumEmittedTotals(CompanyTotalsBefore(section_idx), "sales")
        /\ LastLine.budget = grand_total.Budget
                - SumEmittedTotals(CompanyTotalsBefore(section_idx), "budget")
        /\ LastLine.prior = grand_total.Prior
                - SumEmittedTotals(CompanyTotalsBefore(section_idx), "prior")

\* The totals of the leaf section at position j, under the names of the
\* variant's measures.
LeafMeasure(j, m) ==
    IF variant = "usa_spa" THEN UsaSectionTotals(sections[j])[m]
    ELSE IF variant = "gvl" THEN GvlSectionTotals(sections[j])[m]
    ELSE MgmtSectionTotals(sections[j])[m]

\* What a reference to title contributes to a component-total at position p:
\* the totals of the last leaf section of that title before p, 0 without one.
RefMeasure(title, p, m) ==
    LET hits == { j \in LeavesBefore(p) : sections[j].title = title }
    IN IF hits = {} THEN 0
       ELSE LeafMeasure(CHOOSE j \in hits : \A k \in hits : k <= j, m)

RECURSIVE SumRefMeasures(_, _, _)
SumRefMeasures(refs, p, m) ==
    IF refs = << >> THEN 0
    ELSE RefMeasure(Head(refs), p, m) + SumRefMeasures(Tail(refs), p, m)

ActualName == IF variant = "usa_spa" THEN "actual" ELSE "sales"

\* C9: in every variant a component-total line carries, in each measure, the
\* sum over its referenced titles of the totals stored by the leaf sections
\* processed before it; a title that is unknown, or that only a later section
\* carries, adds zero, and the step completes with its line emitted.
C9_ComponentTotalSumsStored ==
    \A v \in Variants :
        JustProcessed(v, "total") =>
            /\ LastLine.label = Processed.title
            /\ \A m \in {ActualName, "budget", "prior"} :
                  LastLine[m] = SumRefMeasures(ComponentRefs(Processed), section_idx, m)

\* A component-total with amounts whose references name a processed section,
\* a section declared after it and a title no section carries.
C9_Witness ==
    /\ JustProcessed("management", "total")
    /\ LastLine.sales # 0
    /\ \E i \in DOMAIN ComponentRefs(Processed) :
          \E j \in (section_idx + 1)..Len(sections) :
              /\ Kind(sections[j]) = "leaf"
              /\ sections[j].title = ComponentRefs(Processed)[i]
              /\ MgmtSectionTotals(sections[j]).sales # 0
    /\ \E i \in DOMAIN ComponentRefs(Processed) :
          \A j \in DOMAIN sections : sections[j].title # ComponentRefs(Processed)[i]

-----------------------------------------------------------------------------
(* full_report.main: what the claim speaks of.                              *)

\* Report r raised while its generator was constructed or its lines were
\* calculated: its except block has run and its frame is not bound.
FailedEarly(r) == r \in main_errors /\ DfOf(r) \notin main_locals

ReportNames == { Reports[n] : n \in DOMAIN Reports }

\* C10 as stated: when one of the three reports raises while it is constructed
\* or calculated and the two others succeed, the run ends by exporting a
\* combined report that holds the two others, never with a fatal error.
C10_OneFailureStillExports ==
    \A r \in ReportNames :
        ( /\ main_pc = "done"
          /\ FailedEarly(r)
          /\ main_errors = {r} )
        => /\ main_exit = "exported"
           /\ \A o \in ReportNames \ {r} : \E i \in DOMAIN exported : exported[i] = o
           /\ \A i \in DOMAIN exported : exported[i] # r

-----------------------------------------------------------------------------
(* Claims about the filters of apply_mappings                               *)

\* The records as they are classified, before any filter runs.
Classified ==
    Combine(ExactMatchPass(CustomerMerge(EmployeeMerge(Frame(sales_in), mapping_df),
                                         mapping_df), mapping_df))

\* The input fields of the rows of a frame, in order.
InputFields(rows) ==
    [i \in DOMAIN rows |->
        <<rows[i].Sales_Employee_Name, rows[i].Customer_Name, rows[i].Company_Entity,
          rows[i].Document_Type, rows[i].Posting_Date>>]

ExportRule(r) == r.Company_Entity = "Export" /\ r.Document_Type # "AR"

SwissRule(r) == r.cls.Region = <<"Switzerland">> /\ r.Company_Entity # "AG"

IntercoRule(r) == ContainsInterco(r.Customer_Name)

\* C12: the output holds no Export record of a document type other than AR,
\* resolved or not, and the records of the other entities are those the
\* Switzerland and Interco rules keep, whatever their document type.
C12_ExportKeepsOnlyAR ==
    map_pc = "returned" =>
        /\ \A j \in DOMAIN sales_df :
              sales_df[j].Company_Entity = "Export" => sales_df[j].Document_Type = "AR"
        /\ InputFields(Pick(sales_df,
                            { j \in DOMAIN sales_df : sales_df[j].Company_Entity # "Export" }, 1))
              = InputFields(Pick(Classified,
                                 { i \in DOMAIN Classified :
                                     /\ Classified[i].Company_Entity # "Export"
                                     /\ ~ SwissRule(Classified[i])
                                     /\ ~ IntercoRule(Classified[i]) }, 1))

\* C12 witness: an Export record of type CN was dropped and a record of
\* another entity of type CN is in the output.
C12_Witness ==
    /\ map_pc = "returned"
    /\ \E i \in DOMAIN Classified : ExportRule(Classified[i])
    /\ \E j \in DOMAIN sales_df :
          sales_df[j].Company_Entity # "Export" /\ sales_df[j].Document_Type # "AR"

\* C13: the output holds no record of Region Switzerland of an entity other
\* than AG, and the AG records of Region Switzerland are those the Export and
\* Interco rules keep.
C13_SwitzerlandKeepsOnlyAG ==
    map_pc = "returned" =>
        /\ \A j \in DOMAIN sales_df :
              sales_df[j].cls.Region = <<"Switzerland">> => sales_df[j].Company_Entity = "AG"
        /\ InputFields(Pick(sales_df,
                            { j \in DOMAIN sales_df :
                                sales_df[j].cls.Region = <<"Switzerland">> }, 1))
              = InputFields(Pick(Classified,
                                 { i \in DOMAIN Classified :
                                     /\ Classified[i].cls.Region = <<"Switzerland">>
                                     /\ Classified[i].Company_Entity = "AG"
                                     /\ ~ ExportRule(Classified[i])
                                     /\ ~ IntercoRule(Classified[i]) }, 1))

\* C13 witness: a record of Region Switzerland of another entity was dropped
\* and an AG record of Region Switzerland is in the output.
C13_Witness ==
    /\ map_pc = "returned"
    /\ \E i \in DOMAIN Classified : SwissRule(Classified[i]) /\ ~ ExportRule(Classified[i])
    /\ \E j \in DOMAIN sales_df :
          sales_df[j].cls.Region = <<"Switzerland">> /\ sales_df[j].Company_Entity = "AG"

\* C14: the output holds no record whose customer name contains Interco in
\* any letter case, resolved or not and on either path, and the output is
\* the records without it that the Export and Switzerland rules keep.
C14_IntercoExcluded ==
    map_pc = "returned" =>
        /\ \A j \in DOMAIN sales_df : ~ ContainsInterco(sales_df[j].Customer_Name)
        /\ InputFields(sales_df)
              = InputFields(Pick(Classified,
                                 { i \in DOMAIN Classified :
                                     /\ ~ ContainsInterco(Classified[i].Customer_Name)
                                     /\ ~ ExportRule(Classified[i])
                                     /\ ~ SwissRule(Classified[i]) }, 1))

\* C14 witness: a resolved customer-path record and an unresolved
\* employee-path record, both with Interco in the name in another letter
\* case, were dropped by this rule alone.
C14_Witness ==
    /\ map_pc = "returned"
    /\ \E i, k \in DOMAIN Classified :
          /\ IntercoRule(Classified[i]) /\ IntercoRule(Classified[k])
          /\ ~ OnEmployeePath(Classified[i]) /\ Resolved(Classified[i])
          /\ OnEmployeePath(Classified[k]) /\ ~ Resolved(Classified[k])
          /\ \A x \in {i, k} : ~ ExportRule(Classified[x]) /\ ~ SwissRule(Classified[x])
    /\ sales_df = << >>

\* The classified records, kept or dropped, a ledger key stands for.
UnresolvedUnder(key) ==
    { i \in DOMAIN Classified :
        /\ ~ Resolved(Classified[i])
        /\ EntityType(Classified[i]) = key.entity_type
        /\ TrimmedPathName(Classified[i]) = key.entity_name }

DroppedByFilter(r) == ExportRule(r) \/ SwissRule(r) \/ IntercoRule(r)

KeptRecords == Pick(Classified, { i \in DOMAIN Classified : ~ DroppedByFilter(Classified[i]) }, 1)

\* C16: no output record carries 'eCommerce (excl. USA)' in Channel_Level,
\* Region or Sales_Employee_Cleaned: a field that held it holds
\* 'eCommerce EU (incl. UK)', and every other value of a record is as the
\* lookups left it.
C16_LegacyLabelReplaced ==
    map_pc = "returned" =>
        /\ Len(sales_df) = Len(KeptRecords)
        /\ \A j \in DOMAIN sales_df :
              /\ \A c \in {"Channel_Level", "Region", "Sales_Employee_Cleaned"} :
                    /\ sales_df[j].cls[c] # <<"eCommerce", " ", "(excl.", " ", "USA)">>
                    /\ sales_df[j].cls[c] =
                          IF KeptRecords[j].cls[c] = <<"eCommerce", " ", "(excl.", " ", "USA)">>
                          THEN <<"eCommerce", " ", "EU", " ", "(incl.", " ", "UK)">>
                          ELSE KeptRecords[j].cls[c]
              /\ \A c \in {"Market_Group", "Company_Group"} :
                    sales_df[j].cls[c] = KeptRecords[j].cls[c]

\* C16 witness: a record that the lookups gave the legacy label in Region and
\* Sales_Employee_Cleaned and another value in Channel_Level is in the output.
C16_Witness ==
    /\ map_pc = "returned"
    /\ \E j \in DOMAIN KeptRecords :
          /\ KeptRecords[j].cls.Region = LegacyLabel
          /\ KeptRecords[j].cls.Sales_Employee_Cleaned = LegacyLabel
          /\ KeptRecords[j].cls.Channel_Level \notin {LegacyLabel, NaN}
          /\ sales_df[j].cls.Region = NewLabel

\* The records of the input a ledger key names: those of its entity type
\* whose trimmed path name is the key's.
NamedBy(key) ==
    { i \in DOMAIN sales_in :
        /\ EntityType(sales_in[i]) = key.entity_type
        /\ TrimmedPathName(sales_in[i]) = key.entity_name }

NullEverywhere ==
    /\ \A i \in DOMAIN Classified : Classified[i].cls = NoClass
    /\ \A j \in DOMAIN sales_df : sales_df[j].cls = NoClass

C18_MissingColumnsDegrade ==
    /\ map_pc # "raised"
    /\ map_pc = "returned" =>
          \A j \in DOMAIN sales_df :
              \A c \in ClassCols \ mapping_columns : sales_df[j].cls[c] = NaN

-----------------------------------------------------------------------------
(* Claims about calculate_report: missing columns, order and termination    *)

\* C19 as stated: over frames that lack a dimension column a section filters
\* on, no section raises, and a configuration of one leaf section returns a
\* table that is not empty.
C19_MissingColumnDegrades ==
    /\ report_pc = "raised" => section_idx = Len(sections)
    /\ (Len(sections) = 1 /\ Kind(sections[1]) = "leaf" /\ report_pc # "loop")
          => (report_pc = "returned" /\ report_data # << >>)

\* The lines a step appends to report_data.
Appended == SubSeq(report_data', Len(report_data) + 1, Len(report_data'))

Labels(lines) == [i \in DOMAIN lines |-> lines[i].label]

\* lines is item lines, then at most one total line titled title, then one
\* spacer line.
LeafShape(lines, title) ==
    /\ Len(lines) >= 1
    /\ lines[Len(lines)].is_spacer /\ lines[Len(lines)].label = << >>
    /\ \A i \in 1..(Len(lines) - 1) : ~ lines[i].is_spacer
    /\ \A i \in 1..(Len(lines) - 1) :
          lines[i].is_total => (i = Len(lines) - 1 /\ lines[i].label = title)

\* A step that processes the section at position n + 1: the lines emitted
\* so far stay where they are and the lines of the section follow them.
ProcessesNext(n) ==
    /\ n < Len(sections)
    /\ Len(report_data') >= Len(report_data)
    /\ SubSeq(report_data', 1, Len(report_data)) = report_data
    /\ IF Kind(sections[n + 1]) = "leaf" THEN LeafShape(Appended, sections[n + 1].title)
       ELSE IF Kind(sections[n + 1]) = "unmapped" THEN Appended = << >>
       ELSE Len(Appended) = 1 /\ Appended[1].is_total /\ Appended[1].label = sections[n + 1].title

\* C20: every step of calculate_report either processes the next section in
\* declaration order, its lines (for a leaf section: item lines, the
\* optional section total, one spacer) placed after those of the sections
\* before it, or leaves the position and the order of the lines as they are;
\* and the run ends with every section processed.
C20_SectionsOnceInOrder ==
    /\ [][ \/ section_idx' = section_idx + 1 /\ ProcessesNext(section_idx)
           \/ section_idx' = section_idx /\ Labels(report_data') = Labels(report_data) ]_vars
    /\ <>(report_pc \in {"returned", "raised"} /\ section_idx = Len(sections))

\* C20 witness: a run over three sections, one of them a leaf section with
\* item lines and a section total, has returned its table.
C20_Witness ==
    /\ report_pc = "returned"
    /\ Len(sections) = 3
    /\ section_idx = 3
    /\ Kind(sections[1]) = "total"
    /\ Kind(sections[2]) = "leaf"
    /\ Kind(sections[3]) = "leaf"
    /\ \E i \in DOMAIN report_data :
          /\ i > 2
          /\ report_data[i].is_total /\ report_data[i].label = sections[3].title
          /\ ~ report_data[i - 1].is_total
          /\ i + 1 = Len(report_data)

-----------------------------------------------------------------------------

\* A step of the loop that processes the section s.
Processes(s) ==
    /\ report_pc = "loop"
    /\ section_idx < Len(sections)
    /\ s = sections[section_idx + 1]
    /\ section_idx' = section_idx + 1

HandledAs(s, k) ==
    IF k = "grand_total"
    THEN /\ Len(Appended) = 1
         /\ Appended[1].is_grand_total /\ Appended[1].label = s.title
         /\ UNCHANGED <<section_totals, grand_total>>
    ELSE IF k = "unmapped"
    THEN UNCHANGED <<report_data, section_totals, grand_total>>
    ELSE IF k = "total"
    THEN /\ Len(Appended) = 1
         /\ Appended[1].is_total /\ ~ Appended[1].is_grand_total
         /\ Appended[1].label = s.title
         /\ UNCHANGED section_totals
    ELSE /\ Len(Appended) >= 1
         /\ Appended[Len(Appended)].is_spacer
         /\ s.title \in DOMAIN section_totals'

\* The kind the flags give when tested in the order is_total, is_grand_total,
\* is_unmapped.
KindAsStated(s) ==
    IF s.is_total THEN "total"
    ELSE IF s.is_grand_total THEN "grand_total"
    ELSE IF s.is_unmapped THEN "unmapped"
    ELSE "leaf"

\* The kind the flags give when tested in the order is_grand_total,
\* is_unmapped, is_total.
KindGrandFirst(s) ==
    IF s.is_grand_total THEN "grand_total"
    ELSE IF s.is_unmapped THEN "unmapped"
    ELSE IF s.is_total THEN "total"
    ELSE "leaf"

\* C27 as stated: each calculate_report handles a node by the first flag set
\* in the order is_total, is_grand_total, is_unmapped, a node without a flag
\* as a leaf group; a node with is_total and is_grand_total is handled as a
\* component-total.
C27_TotalFlagFirst ==
    [][ \A s \in {sections[i] : i \in DOMAIN sections} :
           Processes(s) => HandledAs(s, KindAsStated(s)) ]_vars

\* C27 amended: each calculate_report handles a node by the first flag set
\* in the order is_grand_total, is_unmapped, is_total, a node without a flag
\* as a leaf group; a node with is_total and is_grand_total is handled as a
\* grand-total.
C27_GrandTotalFlagFirst ==
    [][ \A s \in {sections[i] : i \in DOMAIN sections} :
           Processes(s) => HandledAs(s, KindGrandFirst(s)) ]_vars

\* C27 witness: a node with is_total and is_grand_total that names a stored
\* leaf section was handled as a grand-total: its line is flagged
\* is_grand_total and shows the accumulator, not the total of the leaf.
C27_Witness ==
    /\ report_pc = "loop"
    /\ variant = "gvl"
    /\ section_idx = 2
    /\ sections[2].is_total /\ sections[2].is_grand_total /\ ~ sections[2].is_unmapped
    /\ sections[2].components[1] \in DOMAIN section_totals
    /\ section_totals[sections[2].components[1]].sales # 0
    /\ LastLine.is_grand_total /\ LastLine.label = sections[2].title
    /\ LastLine.sales = 0


\* The component-total sections among the first n - 1 sections.
TotalsBefore(n) == { j \in 1..(n - 1) : Kind(sections[j]) = "total" }

\* The lines the component-total branch emitted: it alone writes the three
\* flag keys with is_total set and is_grand_total unset.
ComponentLines ==
    { i \in DOMAIN report_data :
        /\ report_data[i].is_total /\ ~ report_data[i].is_grand_total
        /\ report_data[i].absent = {} }

\* The sum of a measure over the lines of report_data at the positions idx.
RECURSIVE SumLinesAt(_, _)
SumLinesAt(idx, m) ==
    IF idx = {} THEN 0
    ELSE LET i == CHOOSE k \in idx : TRUE
         IN report_data[i][m] + SumLinesAt(idx \ {i}, m)

\* C28: in the GVL report the grand-total line equals, in sales, budget and
\* prior, the sum of the component-total lines emitted before it, each of
\* them the sum over its references of the totals stored by then: a leaf
\* section enters the grand total through the component-totals that name it
\* and never directly; and no later step changes an emitted grand-total line.
C28_GvlGrandTotalSumsComponentTotals ==
    /\ [](JustProcessed("gvl", "grand_total") =>
            \A m \in MeasureNames :
               /\ LastLine[m] = SumLinesAt(ComponentLines, m)
               /\ LastLine[m] = SumEmittedTotals(TotalsBefore(section_idx), m))
    /\ [][ \A i \in DOMAIN report_data :
              report_data[i].is_grand_total =>
                 (i \in DOMAIN report_data' /\ report_data'[i] = report_data[i]) ]_vars

\* C28 witness: a leaf section with amounts, a component-total that names it,
\* the grand total with those amounts, and a leaf section with amounts
\* processed after it.
C28_Witness ==
    /\ report_pc = "loop"
    /\ variant = "gvl"
    /\ section_idx = 4
    /\ Kind(sections[1]) = "leaf" /\ GvlSectionTotals(sections[1]).sales # 0
    /\ Kind(sections[2]) = "total" /\ sections[1].title \in {ComponentRefs(sections[2])[i] : i \in DOMAIN ComponentRefs(sections[2])}
    /\ Kind(sections[3]) = "grand_total"
    /\ Kind(sections[4]) = "leaf" /\ GvlSectionTotals(sections[4]).sales # 0
    /\ \E i \in DOMAIN report_data :
          /\ report_data[i].is_grand_total
          /\ report_data[i].sales = GvlSectionTotals(sections[1]).sales
          /\ report_data[i].sales # GvlSectionTotals(sections[1]).sales + GvlSectionTotals(sections[4]).sales

(* Claims about the web application                                         *)

\* The task has started execute_report and has not left it.
InProgress(task) == task.pc \in {"begun", "cleared", "exited", "finishing"}

RunsInProgress == { i \in DOMAIN background_tasks : InProgress(background_tasks[i]) }

\* C11: at most one execute_report is in progress at a time, so the one
\* report_status is written by one run only.
C11_AtMostOneRun == Cardinality(RunsInProgress) <= 1

Started(i) == i \in DOMAIN background_tasks /\ background_tasks[i].pc = "begun"

Ended(i) == i \in DOMAIN background_tasks /\ background_tasks[i].pc = "finished"

\* Every execute_report that has started sets running to False in the end.
EveryRunEnds == \A i \in 1..MaxTriggers : Started(i) ~> Ended(i)

\* With no run in progress running is False: the next trigger is accepted.
IdleIsNotRunning == RunsInProgress = {} => ~report_status.running

AcceptedWhenIdle ==
    (RunsInProgress = {} /\ Len(responses') = Len(responses) + 1)
        => responses'[Len(responses')] = 200

\* A task leaves the try block of execute_report in this step.
LeavesTry(i) ==
    /\ i \in DOMAIN background_tasks
    /\ background_tasks[i].pc \in {"cleared", "exited"}
    /\ background_tasks'[i].pc = "finishing"

\* Every file of a run is offered for download.
Published(status) == \A k \in ExportedFormats \cup {"zip_url"} : status[k] # 0

\* A run that has not published its files has set no URL and has left last_run
\* as it was.
FailureLeavesNoTrace ==
    \A i \in 1..MaxTriggers :
        (LeavesTry(i) /\ ~Published(report_status')) =>
            /\ \A k \in UrlKeys : report_status'[k] = 0
            /\ report_status'.last_run = report_status.last_run

\* C30: every execute_report that starts sets running back to False in the
\* end, however the script ended; once the runs have ended a trigger is
\* accepted; and a run that did not succeed leaves every download URL empty
\* and last_run unchanged.
C30_RunEndsAndFailureLeavesNoTrace ==
    /\ EveryRunEnds
    /\ [](IdleIsNotRunning)
    /\ [][AcceptedWhenIdle]_vars
    /\ [][FailureLeavesNoTrace]_vars

-----------------------------------------------------------------------------
(* Claims about the display of a line                                       *)

\* The measures of a line that an output shows.
ShownMeasures(cells) == (DOMAIN cells) \cap {"sales", "budget", "prior", "diff_budget"}

\* The one rule: the nearest integer, a half rounded away from zero, for a
\* magnitude of 0.5 or more; '-' for zero; '0' otherwise.
StatedCell(x) ==
    IF Abs(x) >= 5 THEN Digits(RoundHalfAway(x, 10))
    ELSE IF x = 0 THEN Dash
    ELSE Digits(0)

\* C22 as stated: every measure of a line, in the console rendering and in
\* every export format, is displayed by the one rule: 2.5 shows 3, -2.5
\* shows -3, zero shows '-', a non-zero value below 0.5 shows '0'.
C22_OneDisplayRule ==
    shown_by # "none" =>
        \A f \in DOMAIN shown_cells : \A m \in ShownMeasures(shown_cells[f]) :
            m \notin shown_row.nan => shown_cells[f][m] = StatedCell(shown_row[m])

\* The reference m of the displayed line is zero or missing.
NoReference(m) == m \in shown_row.nan \/ shown_row[m] = 0

\* C23 as stated: whatever the variant and the output, displaying a line
\* whose budget or prior reference is zero or missing makes no division by
\* zero, and each percentage against such a reference is shown as '-'.
C23_NoReferenceShowsPlaceholder ==
    shown_by # "none" =>
        \A f \in DOMAIN shown_cells :
            /\ \A k \in DOMAIN shown_cells[f] : shown_cells[f][k] # ZeroDivisionError
            /\ NoReference("budget") => shown_cells[f].pct = Dash
            /\ ("pct_prior" \in DOMAIN shown_cells[f] /\ NoReference("prior"))
                  => shown_cells[f].pct_prior = Dash

\* The percentage of actual against budget in the two conventions.
RawPct == OneDecimal(shown_row.sales * 100, shown_row.budget)

DeltaPct == OneDecimal(shown_row.sales * 100 - shown_row.budget * 100, shown_row.budget)

\* C24 as stated: with a budget that is not zero, every output of a
\* management or GVL line shows actual / budget x 100 and every output of a
\* USA Spa line shows actual / budget x 100 - 100, the combined export of
\* full_report.main included.
C24_ConventionPerVariant ==
    (shown_by # "none" /\ shown_row.nan = {} /\ shown_row.budget # 0) =>
        \A f \in DOMAIN shown_cells :
            shown_cells[f].pct = IF shown_row.origin = "usa_spa" THEN DeltaPct ELSE RawPct

-----------------------------------------------------------------------------
(* Claims about the construction of a generator *)

Constructed == prepared # << >> /\ ~prepared.raised

\* The year and the month a date cell stands for, parsed or as text.
ReadDate(cell) ==
    IF Len(cell) = 2 THEN cell
    ELSE IF cell[2] = "/" THEN ToDatetime(cell)
    ELSE <<CHOOSE y \in YearPool : ToString(y) = cell[1],
           CHOOSE m \in 1..12 : Pad2(m) = cell[3]>>

\* The reference rows of the period hold kUSD data that is not zero.
UsdReferenceData ==
    \/ \E i \in DOMAIN prepared.budget_month : prepared.budget_month[i].Value_kUSD # 0
    \/ \E i \in DOMAIN prepared.prior_month : prepared.prior_month[i].Value_kUSD # 0

UsdSales == loaded.columns # {}

\* The actual of a sales record as the passage states it, given the unit of the report.
StatedActual(rec, unit) ==
    IF "Value_kUSD" \in loaded.columns THEN rec.Value_kUSD * 100000
    ELSE IF UsdSales THEN rec.Value_in_USD_converted * 100
    ELSE IF unit = "kUSD" THEN rec.Total_Value_EUR * EurToUsd(loaded.EUR_TO_USD)
    ELSE rec.Total_Value_EUR * 100

\* C25: the USA Spa generator reports in kUSD exactly when the budget or the
\* prior rows of the period hold a kUSD value that is not zero or the sales
\* records carry USD values, and in kEUR otherwise; actuals computed in kEUR
\* are multiplied by the EUR-to-USD rate once when the unit is kUSD, and
\* actuals that were in kUSD are left as they were.
C25_UnitFollowsUsdData ==
    (Constructed /\ prepared.by = "usa_spa") =>
        LET sales == OnlyUsaSpa(OnlyAR(loaded.df))
        IN  /\ prepared.unit = IF UsdReferenceData \/ UsdSales THEN "kUSD" ELSE "kEUR"
            /\ Len(prepared.df) = Len(sales)
            /\ \A i \in DOMAIN sales :
                  prepared.df[i].kVAL = StatedActual(sales[i], prepared.unit)

\* C26: in every variant the budget rows used are rows of the current month
\* and the prior rows used are rows of the same month of the year before the
\* current one, whatever the current date is.
C26_ReferencesOfThePeriod ==
    Constructed =>
        /\ \A i \in DOMAIN prepared.budget_month :
              ReadDate(prepared.budget_month[i].Date)[2] = loaded.now[2]
        /\ \A i \in DOMAIN prepared.prior_month :
              ReadDate(prepared.prior_month[i].Date) = <<loaded.now[1] - 1, loaded.now[2]>>

-----------------------------------------------------------------------------
(* Claims about the joins of apply_mappings *)

\* The fields of a record that apply_mappings reads and never writes.
Raw(r) == [f \in DOMAIN r \ {"cls", "cls_cust"} |-> r[f]]

RawRows(rows) == [i \in DOMAIN rows |-> Raw(rows[i])]

\* a is b with some of its rows left out.
RECURSIVE IsSubSeq(_, _)
IsSubSeq(a, b) ==
    IF a = << >> THEN TRUE
    ELSE IF b = << >> THEN FALSE
    ELSE IF a[1] = b[1] THEN IsSubSeq(Tail(a), Tail(b))
    ELSE IsSubSeq(a, Tail(b))

\* The rows of the cleaned mapping table that carry the key of a record on its path.
TableRowsOfKey(r) ==
    LET m == CleanMapping(mapping_df)
    IN  IF OnEmployeePath(r)
        THEN { i \in DOMAIN m : r.Sales_Employee_Name # NaN /\ m[i].Sales_Employee = r.Sales_Employee_Name }
        ELSE { i \in DOMAIN m : r.Customer_Name # NaN /\ m[i].Customer_Name = r.Customer_Name }

\* C29: the joins neither duplicate nor lose a record: after each join and
\* before the filters the frame holds the input records one for one, in
\* order and with their raw fields as passed in; the filtered and the
\* returned frame hold input records only, each at most once, raw fields
\* unchanged.
C29_JoinsKeepEachRecordOnce ==
    /\ map_pc \in {"employee_mapped", "mapped"} => RawRows(sales_df) = RawRows(sales_in)
    /\ map_pc \in {"filtered", "returned"} => IsSubSeq(RawRows(sales_df), RawRows(sales_in))

\* The table has two rows for the key of a record that is joined, and the
\* run has returned some records and dropped others.
C29_Witness ==
    /\ map_pc = "returned"
    /\ sales_df # << >>
    /\ Len(sales_df) < Len(sales_in)
    /\ \E i \in DOMAIN sales_df : Cardinality(TableRowsOfKey(sales_df[i])) >= 2

=============================================================================
